---- MODULE Spec2Model ----
(***************************************************************************)
(* Model of the SQL/JSON path executor in                                  *)
(* src/backend/utils/adt/jsonpath_exec.c.                                  *)
(*                                                                         *)
(* The recursive walker is modelled as a family of mutually recursive      *)
(* operators that thread the execution context (JsonPathExecContext) and   *)
(* the result list (JsonValueList) through every call, exactly as the C    *)
(* code mutates them through pointers.  An ereport(ERROR) is a non-local   *)
(* exit: it is the field "raised" of every result, and every caller hands  *)
(* a raised result on unchanged.                                           *)
(*                                                                         *)
(* Strings are sequences of bytes.  Numerics are integers.                 *)
(***************************************************************************)
EXTENDS Integers, Sequences, FiniteSets, TLC

VARIABLES pc, call, ret, tbl

vars == <<pc, call, ret, tbl>>

(***************************************************************************)
(* Enumerations.                                                           *)
(***************************************************************************)

JsonPathBool == {"jpbFalse", "jpbTrue", "jpbUnknown"}

jperIsError(jper) == jper = "jperError"

NoError == "none"

(* The errors RETURN_ERROR can suppress; the others are always thrown. *)
RecoverableErrors ==
    {"ERRCODE_SQL_JSON_MEMBER_NOT_FOUND", "ERRCODE_SQL_JSON_ARRAY_NOT_FOUND",
     "ERRCODE_SQL_JSON_OBJECT_NOT_FOUND", "ERRCODE_INVALID_SQL_JSON_SUBSCRIPT",
     "ERRCODE_SINGLETON_SQL_JSON_ITEM_REQUIRED", "ERRCODE_SQL_JSON_NUMBER_NOT_FOUND",
     "ERRCODE_NON_NUMERIC_SQL_JSON_ITEM",
     "ERRCODE_INVALID_ARGUMENT_FOR_SQL_JSON_DATETIME_FUNCTION",
     "ERRCODE_DIVISION_BY_ZERO"}

(***************************************************************************)
(* JsonbValue.  A container (array or object) is always jbvBinary; its     *)
(* kind is what JsonContainerIsArray / JsonContainerIsObject report.       *)
(***************************************************************************)

JNull == [type |-> "jbvNull"]
JBool(b) == [type |-> "jbvBool", boolean |-> b]
JNum(n) == [type |-> "jbvNumeric", numeric |-> n]
JStr(s) == [type |-> "jbvString", string |-> s]
JArr(elems) == [type |-> "jbvBinary", kind |-> "jbvArray", children |-> elems]
JObj(pairs) == [type |-> "jbvBinary", kind |-> "jbvObject", children |-> pairs]
JPair(k, v) == [key |-> k, value |-> v]
JDatetime(typid, value) == [type |-> "jbvDatetime", typid |-> typid, value |-> value]

(* Containers that record where they lie in memory: "addr" is the address *)
(* of the JsonbContainer.  Only the difference of two addresses inside one *)
(* base object is ever used, so the addresses count containers, not bytes. *)
JArrAt(addr, elems) == [type |-> "jbvBinary", kind |-> "jbvArray", children |-> elems, addr |-> addr]
JObjAt(addr, pairs) == [type |-> "jbvBinary", kind |-> "jbvObject", children |-> pairs, addr |-> addr]

(* JsonbType(): never returns jbvBinary as is. *)
JsonbType(jb) == IF jb.type = "jbvBinary" THEN jb.kind ELSE jb.type

(* JsonbArraySize(): size of an array item, -1 if the item is not an array. *)
JsonbArraySize(jb) ==
    IF jb.type = "jbvBinary" /\ jb.kind = "jbvArray" THEN Len(jb.children) ELSE -1

(* getScalar(): TRUE when the C function returns the item, FALSE for NULL. *)
getScalar(scalar, type) == scalar.type = type

(* The values JsonbIteratorNext(skipNested) hands out for a container. *)
ContainerValues(jb) ==
    IF jb.kind = "jbvArray" THEN jb.children
    ELSE [i \in 1..Len(jb.children) |-> jb.children[i].value]

(* findJsonbValueFromContainer(JB_FOBJECT): index of the pair, 0 if absent. *)
findJsonbValueFromContainer(jb, key) ==
    LET hits == {i \in 1..Len(jb.children) : jb.children[i].key = key}
    IN IF hits = {} THEN 0 ELSE CHOOSE i \in hits : \A j \in hits : i <= j

(***************************************************************************)
(* JsonValueList.  found = NULL in the C code is NoList here.              *)
(***************************************************************************)
NoList == [given |-> FALSE, items |-> <<>>]
EmptyList == [given |-> TRUE, items |-> <<>>]

JsonValueListAppend(jvl, jbv) == [jvl EXCEPT !.items = Append(@, jbv)]
JsonValueListLength(jvl) == Len(jvl.items)
JsonValueListIsEmpty(jvl) == jvl.items = <<>>
JsonValueListHead(jvl) == jvl.items[1]
JsonValueListGetList(jvl) == jvl.items

(* wrapItemsInArray(): a JSON array of the items, in list order. *)
wrapItemsInArray(items) == JArr(items.items)

(***************************************************************************)
(* Comparison kernel.                                                      *)
(***************************************************************************)
Min(a, b) == IF a < b THEN a ELSE b

Sign(n) == IF n < 0 THEN -1 ELSE IF n > 0 THEN 1 ELSE 0

(* memcmp() over the first n bytes: <0, 0 or >0. *)
RECURSIVE memcmp(_, _, _, _)
memcmp(s1, s2, i, n) ==
    IF i > n THEN 0
    ELSE IF s1[i] # s2[i] THEN Sign(s1[i] - s2[i])
    ELSE memcmp(s1, s2, i + 1, n)

binaryCompareStrings(s1, s2) ==
    LET cmp == memcmp(s1, s2, 1, Min(Len(s1), Len(s2)))
    IN IF cmp # 0 THEN cmp
       ELSE IF Len(s1) = Len(s2) THEN 0
       ELSE IF Len(s1) < Len(s2) THEN -1 ELSE 1

(* compareStrings() in a UTF-8 or SQL_ASCII database. *)
compareStrings(mbstr1, mbstr2) == binaryCompareStrings(mbstr1, mbstr2)

(* compareNumeric(): numeric_cmp. *)
compareNumeric(a, b) == Sign(a - b)

(* The result of compareDatetime(): cmp, *cast_error, or a thrown error. *)
DtCmp(cmp) == [cmp |-> cmp, cast_error |-> FALSE, raised |-> NoError]
DtCastError == [cmp |-> 0, cast_error |-> TRUE, raised |-> NoError]
DtRaise(code) == [cmp |-> 0, cast_error |-> FALSE, raised |-> code]

(* checkTimezoneIsUsedForCast(): TRUE when the cast is allowed. *)
checkTimezoneIsUsedForCast(useTz) == useTz

castTimeToTimeTz(r, useTz) ==
    IF checkTimezoneIsUsedForCast(useTz) THEN r ELSE DtRaise("ERRCODE_FEATURE_NOT_SUPPORTED")

cmpDateToTimestamp(date1, ts2, useTz) == DtCmp(Sign(date1 - ts2))

cmpDateToTimestampTz(date1, tstz2, useTz) ==
    IF checkTimezoneIsUsedForCast(useTz) THEN DtCmp(Sign(date1 - tstz2))
    ELSE DtRaise("ERRCODE_FEATURE_NOT_SUPPORTED")

cmpTimestampToTimestampTz(ts1, tstz2, useTz) ==
    IF checkTimezoneIsUsedForCast(useTz) THEN DtCmp(Sign(ts1 - tstz2))
    ELSE DtRaise("ERRCODE_FEATURE_NOT_SUPPORTED")

(* The negation of the result of a swapped comparison left out. *)
DtNegate_Forgotten(r) == r

DtNegate(r) == [r EXCEPT !.cmp = 0 - @]

compareDatetime(val1, typid1, val2, typid2, useTz) ==
    CASE typid1 = "DATEOID" ->
            (CASE typid2 = "DATEOID" -> DtCmp(Sign(val1 - val2))
               [] typid2 = "TIMESTAMPOID" -> cmpDateToTimestamp(val1, val2, useTz)
               [] typid2 = "TIMESTAMPTZOID" -> cmpDateToTimestampTz(val1, val2, useTz)
               [] OTHER -> DtCastError)
      [] typid1 = "TIMEOID" ->
            (CASE typid2 = "TIMEOID" -> DtCmp(Sign(val1 - val2))
               [] typid2 = "TIMETZOID" -> castTimeToTimeTz(DtCmp(Sign(val1 - val2)), useTz)
               [] OTHER -> DtCastError)
      [] typid1 = "TIMETZOID" ->
            (CASE typid2 = "TIMEOID" -> castTimeToTimeTz(DtCmp(Sign(val1 - val2)), useTz)
               [] typid2 = "TIMETZOID" -> DtCmp(Sign(val1 - val2))
               [] OTHER -> DtCastError)
      [] typid1 = "TIMESTAMPOID" ->
            (CASE typid2 = "DATEOID" -> DtNegate(cmpDateToTimestamp(val2, val1, useTz))
               [] typid2 = "TIMESTAMPOID" -> DtCmp(Sign(val1 - val2))
               [] typid2 = "TIMESTAMPTZOID" -> cmpTimestampToTimestampTz(val1, val2, useTz)
               [] OTHER -> DtCastError)
      [] typid1 = "TIMESTAMPTZOID" ->
            (CASE typid2 = "DATEOID" -> DtNegate(cmpDateToTimestampTz(val2, val1, useTz))
               [] typid2 = "TIMESTAMPOID" -> DtNegate(cmpTimestampToTimestampTz(val2, val1, useTz))
               [] typid2 = "TIMESTAMPTZOID" -> DtCmp(Sign(val1 - val2))
               [] OTHER -> DtCastError)

(* A JsonPathBool result of a predicate callback, or a thrown error. *)
BoolRes(st) == [st |-> st, raised |-> NoError]
BoolRaise(code) == [st |-> "jpbUnknown", raised |-> code]

ComparisonOps == {"jpiEqual", "jpiNotEqual", "jpiLess", "jpiGreater", "jpiLessOrEqual", "jpiGreaterOrEqual"}

(* The final switch (op) with <= and >= read as < and >. *)
CmpToBool_Strict(op, cmp) ==
    LET res == CASE op = "jpiEqual" -> cmp = 0
                 [] op = "jpiNotEqual" -> cmp # 0
                 [] op \in {"jpiLess", "jpiLessOrEqual"} -> cmp < 0
                 [] op \in {"jpiGreater", "jpiGreaterOrEqual"} -> cmp > 0
    IN IF res THEN "jpbTrue" ELSE "jpbFalse"

(* The final switch (op) of compareItems(). *)
CmpToBool(op, cmp) ==
    LET res == CASE op = "jpiEqual" -> cmp = 0
                 [] op = "jpiNotEqual" -> cmp # 0
                 [] op = "jpiLess" -> cmp < 0
                 [] op = "jpiGreater" -> cmp > 0
                 [] op = "jpiLessOrEqual" -> cmp <= 0
                 [] op = "jpiGreaterOrEqual" -> cmp >= 0
    IN IF res THEN "jpbTrue" ELSE "jpbFalse"

compareItems(op, jb1, jb2, useTz) ==
    IF jb1.type # jb2.type
    THEN IF jb1.type = "jbvNull" \/ jb2.type = "jbvNull"
         THEN BoolRes(IF op = "jpiNotEqual" THEN "jpbTrue" ELSE "jpbFalse")
         ELSE BoolRes("jpbUnknown")
    ELSE CASE jb1.type = "jbvNull" -> BoolRes(CmpToBool(op, 0))
           [] jb1.type = "jbvBool" ->
                BoolRes(CmpToBool(op, IF jb1.boolean = jb2.boolean THEN 0
                                      ELSE IF jb1.boolean THEN 1 ELSE -1))
           [] jb1.type = "jbvNumeric" ->
                BoolRes(CmpToBool(op, compareNumeric(jb1.numeric, jb2.numeric)))
           [] jb1.type = "jbvString" ->
                IF op = "jpiEqual"
                THEN BoolRes(IF Len(jb1.string) # Len(jb2.string)
                                \/ memcmp(jb1.string, jb2.string, 1, Len(jb1.string)) # 0
                             THEN "jpbFalse" ELSE "jpbTrue")
                ELSE BoolRes(CmpToBool(op, compareStrings(jb1.string, jb2.string)))
           [] jb1.type = "jbvDatetime" ->
                LET d == compareDatetime(jb1.value, jb1.typid, jb2.value, jb2.typid, useTz)
                IN IF d.raised # NoError THEN BoolRaise(d.raised)
                   ELSE IF d.cast_error THEN BoolRes("jpbUnknown")
                   ELSE BoolRes(CmpToBool(op, d.cmp))
           [] OTHER -> BoolRes("jpbUnknown")

(* executeStartsWith(): byte-prefix test of two strings. *)
executeStartsWith(whole, initial) ==
    IF ~getScalar(whole, "jbvString") THEN BoolRes("jpbUnknown")
    ELSE IF ~getScalar(initial, "jbvString") THEN BoolRes("jpbUnknown")
    ELSE IF Len(whole.string) >= Len(initial.string)
            /\ memcmp(whole.string, initial.string, 1, Len(initial.string)) = 0
         THEN BoolRes("jpbTrue")
         ELSE BoolRes("jpbFalse")

(***************************************************************************)
(* JsonPathItem.  Every item has a type, its payload, and its next link    *)
(* (NoItem when jspGetNext() returns false).  NullItem is a NULL pointer.  *)
(***************************************************************************)
NoItem == [type |-> "none"]
NullItem == [type |-> "NULL"]

jspHasNext(jsp) == jsp.next.type # "none"

(* The "unbounded" value of the .** bounds.  TLC's integers are 32-bit     *)
(* signed, so the sentinel is the largest of them; no nesting level of a   *)
(* document comes near it.                                                 *)
PG_UINT32_MAX == 2147483647

jpiNull(next) == [type |-> "jpiNull", next |-> next]
jpiBool(b, next) == [type |-> "jpiBool", boolean |-> b, next |-> next]
jpiNumeric(n, next) == [type |-> "jpiNumeric", numeric |-> n, next |-> next]
jpiString(str, next) == [type |-> "jpiString", string |-> str, next |-> next]
jpiVariable(name, next) == [type |-> "jpiVariable", string |-> name, next |-> next]
jpiRoot(next) == [type |-> "jpiRoot", next |-> next]
jpiCurrent(next) == [type |-> "jpiCurrent", next |-> next]
jpiLast(next) == [type |-> "jpiLast", next |-> next]
jpiKey(name, next) == [type |-> "jpiKey", string |-> name, next |-> next]
jpiAnyKey(next) == [type |-> "jpiAnyKey", next |-> next]
jpiAnyArray(next) == [type |-> "jpiAnyArray", next |-> next]
jpiAny(first, last, next) == [type |-> "jpiAny", first |-> first, last |-> last, next |-> next]
(* elems: a sequence of subscripts [from, to, range] *)
jpiIndexArray(elems, next) == [type |-> "jpiIndexArray", elems |-> elems, next |-> next]
Subscript(from) == [from |-> from, to |-> NoItem, range |-> FALSE]
SubscriptRange(from, to) == [from |-> from, to |-> to, range |-> TRUE]
jpiFilter(arg, next) == [type |-> "jpiFilter", arg |-> arg, next |-> next]
(* jpiAnd, jpiOr, comparisons, jpiStartsWith and binary arithmetic *)
jpiBinary(type, left, right, next) == [type |-> type, left |-> left, right |-> right, next |-> next]
(* jpiNot, jpiIsUnknown, jpiExists, jpiPlus, jpiMinus *)
jpiUnary(type, arg, next) == [type |-> type, arg |-> arg, next |-> next]
jpiLikeRegex(expr, pattern, next) == [type |-> "jpiLikeRegex", expr |-> expr, pattern |-> pattern, next |-> next]
(* item methods without argument *)
jpiMethod(type, next) == [type |-> type, next |-> next]

BoolItems == {"jpiAnd", "jpiOr", "jpiNot", "jpiIsUnknown", "jpiExists", "jpiStartsWith", "jpiLikeRegex"}
                \cup ComparisonOps
(* jpiDiv is left out: the numerics of the model are integers. *)
BinaryArithmItems == {"jpiAdd", "jpiSub", "jpiMul", "jpiMod"}

(***************************************************************************)
(* JsonPathExecContext and the results of the walker's functions.          *)
(***************************************************************************)
NoContainer == [type |-> "NULL"]
NoVars == [type |-> "NULL"]

JsonBaseObjectInfo(jbc, id) == [jbc |-> jbc, id |-> id]

(* setBaseObject(): the context with the new base object. *)
setBaseObject(cxt, jbv, id) ==
    [cxt EXCEPT !.baseObject =
        JsonBaseObjectInfo(IF jbv.type # "jbvBinary" THEN NoContainer ELSE jbv, id)]

Res(res, cxt, found) == [res |-> res, cxt |-> cxt, found |-> found, raised |-> NoError]
Raise(code, cxt, found) == [res |-> "jperError", cxt |-> cxt, found |-> found, raised |-> code]
IsRaised(r) == r.raised # NoError

jspThrowErrors(cxt) == cxt.throwErrors
jspIgnoreStructuralErrors(cxt) == cxt.ignoreStructuralErrors
jspAutoUnwrap(cxt) == cxt.laxMode
jspAutoWrap(cxt) == cxt.laxMode
jspStrictAbsenceOfErrors(cxt) == ~cxt.laxMode

(* RETURN_ERROR(): throw or return jperError, depending on the context. *)
RETURN_ERROR(code, cxt, found) ==
    IF jspThrowErrors(cxt) THEN Raise(code, cxt, found) ELSE Res("jperError", cxt, found)

BRes(st, cxt) == [st |-> st, cxt |-> cxt, raised |-> NoError]
BRaise(code, cxt) == [st |-> "jpbUnknown", cxt |-> cxt, raised |-> code]

RECURSIVE Call(_, _)

(* executeItem(): unwrap the current item automatically in lax mode. *)
executeItem(cxt, jsp, jb, found) ==
    Call("executeItemOptUnwrapTarget", <<cxt, jsp, jb, found, jspAutoUnwrap(cxt)>>)

(* executeItemUnwrapTargetArray(): run jsp on each element of the array. *)
executeItemUnwrapTargetArray(cxt, jsp, jb, found, unwrapElements) ==
    IF jb.type # "jbvBinary" THEN Raise("ERRCODE_INTERNAL_ERROR", cxt, found)
    ELSE Call("executeAnyItem", <<cxt, jsp, jb, found, 1, 1, 1, FALSE, unwrapElements>>)

(* executeNextItem(): run the next item if there is one, otherwise put v  *)
(* into the found list if one was given.                                  *)
executeNextItem(cxt, cur, v, found) ==
    IF jspHasNext(cur) THEN Call("executeItem", <<cxt, cur.next, v, found>>)
    ELSE Res("jperOk", cxt, IF found.given THEN JsonValueListAppend(found, v) ELSE found)

(* The while loop of executeItemOptUnwrapResult() over seq from item i on. *)
UnwrapResultLoop(cxt, seq, i, found) ==
    IF i > Len(seq) THEN Res("jperOk", cxt, found)
    ELSE LET item == seq[i]
         IN IF JsonbType(item) = "jbvArray"
            THEN LET r == Call("executeItemUnwrapTargetArray", <<cxt, NullItem, item, found, FALSE>>)
                 IN IF IsRaised(r) THEN r
                    ELSE Call("UnwrapResultLoop", <<r.cxt, seq, i + 1, r.found>>)
            ELSE Call("UnwrapResultLoop", <<cxt, seq, i + 1, JsonValueListAppend(found, item)>>)

(* executeItemOptUnwrapResult(): as executeItem(), but in lax mode with    *)
(* unwrap each array of the resulting sequence is replaced by its elements *)
executeItemOptUnwrapResult(cxt, jsp, jb, unwrap, found) ==
    IF unwrap /\ jspAutoUnwrap(cxt)
    THEN LET r == Call("executeItem", <<cxt, jsp, jb, EmptyList>>)
         IN IF IsRaised(r) THEN [r EXCEPT !.found = found]
            ELSE IF jperIsError(r.res) THEN Res(r.res, r.cxt, found)
            ELSE Call("UnwrapResultLoop", <<r.cxt, r.found.items, 1, found>>)
    ELSE Call("executeItem", <<cxt, jsp, jb, found>>)

(* executeItemOptUnwrapResultNoThrow() leaving throwErrors false. *)
executeItemOptUnwrapResultNoThrow_NotRestored(cxt, jsp, jb, unwrap, found) ==
    Call("executeItemOptUnwrapResult", <<[cxt EXCEPT !.throwErrors = FALSE], jsp, jb, unwrap, found>>)

(* executeItemOptUnwrapResultNoThrow(): the same with errors suppressed. *)
executeItemOptUnwrapResultNoThrow(cxt, jsp, jb, unwrap, found) ==
    LET throwErrors == cxt.throwErrors
        r == Call("executeItemOptUnwrapResult", <<[cxt EXCEPT !.throwErrors = FALSE],
                                        jsp, jb, unwrap, found>>)
    IN IF IsRaised(r) THEN r
       ELSE [r EXCEPT !.cxt.throwErrors = throwErrors]

(* executeAnyItem() without the test of level against last. *)
executeAnyItem_IgnoresLast(cxt, jsp, jbc, found, level, first, last, ignoreStructuralErrors, unwrapNext) ==
    Call("executeAnyItemLoop", <<cxt, jsp, ContainerValues(jbc), 1, "jperNotFound", found,
                       level, first, last, ignoreStructuralErrors, unwrapNext>>)

(* executeAnyItem() looking at the first value only when no result list is *)
(* given.                                                                  *)
executeAnyItem_FirstValueOnly(cxt, jsp, jbc, found, level, first, last, ignoreStructuralErrors, unwrapNext) ==
    IF level > last THEN Res("jperNotFound", cxt, found)
    ELSE Call("executeAnyItemLoop", <<cxt, jsp,
                            IF found.given THEN ContainerValues(jbc)
                            ELSE SubSeq(ContainerValues(jbc), 1,
                                        IF ContainerValues(jbc) = <<>> THEN 0 ELSE 1),
                            1, "jperNotFound", found,
                            level, first, last, ignoreStructuralErrors, unwrapNext>>)

(* One pass of the while loop of executeAnyItem() over the values of the  *)
(* container, from value i on; res is the status so far.                  *)
executeAnyItemLoop(cxt, jsp, vals, i, res, found, level, first, last, ignoreStructuralErrors, unwrapNext) ==
    IF i > Len(vals) THEN Res(res, cxt, found)
    ELSE
    LET v == vals[i]
        inBand == level >= first
                  \/ (first = PG_UINT32_MAX /\ last = PG_UINT32_MAX /\ v.type # "jbvBinary")
        (* the "check expression" part: stop is TRUE for break / return *)
        r1 == IF ~inBand THEN [r |-> Res(res, cxt, found), stop |-> FALSE]
              ELSE IF jsp.type # "NULL"
              THEN LET rr == IF ignoreStructuralErrors
                             THEN LET savedIgnoreStructuralErrors == cxt.ignoreStructuralErrors
                                      x == Call("executeItemOptUnwrapTarget", <<
                                               [cxt EXCEPT !.ignoreStructuralErrors = TRUE],
                                               jsp, v, found, unwrapNext>>)
                                  IN IF IsRaised(x) THEN x
                                     ELSE [x EXCEPT !.cxt.ignoreStructuralErrors =
                                                        savedIgnoreStructuralErrors]
                             ELSE Call("executeItemOptUnwrapTarget", <<cxt, jsp, v, found, unwrapNext>>)
                   IN [r |-> rr,
                       stop |-> IsRaised(rr) \/ jperIsError(rr.res)
                                \/ (rr.res = "jperOk" /\ ~found.given)]
              ELSE IF found.given
              THEN [r |-> Res(res, cxt, JsonValueListAppend(found, v)), stop |-> FALSE]
              ELSE [r |-> Res("jperOk", cxt, found), stop |-> TRUE]
    IN IF r1.stop THEN r1.r
       ELSE IF level < last /\ v.type = "jbvBinary"
       THEN LET r2 == Call("executeAnyItem", <<r1.r.cxt, jsp, v, r1.r.found, level + 1, first, last,
                                     ignoreStructuralErrors, unwrapNext>>)
            IN IF IsRaised(r2) \/ jperIsError(r2.res) \/ (r2.res = "jperOk" /\ ~found.given)
               THEN r2
               ELSE Call("executeAnyItemLoop", <<r2.cxt, jsp, vals, i + 1, r2.res, r2.found,
                                       level, first, last, ignoreStructuralErrors, unwrapNext>>)
       ELSE Call("executeAnyItemLoop", <<r1.r.cxt, jsp, vals, i + 1, r1.r.res, r1.r.found,
                               level, first, last, ignoreStructuralErrors, unwrapNext>>)

(* executeAnyItem(): implementation of .**, .* and [*]. *)
executeAnyItem(cxt, jsp, jbc, found, level, first, last, ignoreStructuralErrors, unwrapNext) ==
    IF level > last THEN Res("jperNotFound", cxt, found)
    ELSE Call("executeAnyItemLoop", <<cxt, jsp, ContainerValues(jbc), 1, "jperNotFound", found,
                            level, first, last, ignoreStructuralErrors, unwrapNext>>)

(***************************************************************************)
(* Scalars, variables and host conversions.                                *)
(***************************************************************************)
(* getJsonPathVariableFromJsonb(): index of the variable in vars, 0 when   *)
(* it is absent (the C function returns NULL and baseObjectId = -1).       *)
getJsonPathVariableFromJsonb(varsJsonb, varName) ==
    findJsonbValueFromContainer(varsJsonb, varName)

(* countVariablesFromJsonb(): the count of base objects. *)
countVariablesFromJsonb(varsJsonb) == IF varsJsonb.type # "NULL" THEN 1 ELSE 0

(* getJsonPathVariable(): the value of the variable, or a thrown error. *)
getJsonPathVariable(cxt, variable) ==
    LET idx == IF cxt.vars.type = "NULL" THEN 0
               ELSE getJsonPathVariableFromJsonb(cxt.vars, variable.string)
    IN IF idx = 0
       THEN [value |-> JNull, cxt |-> cxt, raised |-> "ERRCODE_UNDEFINED_OBJECT"]
       ELSE [value |-> cxt.vars.children[idx].value,
             cxt |-> setBaseObject(cxt, cxt.vars, 1),
             raised |-> NoError]

(* getJsonPathItem(): a scalar or variable node as a jsonb value. *)
getJsonPathItem(cxt, item) ==
    CASE item.type = "jpiNull" -> [value |-> JNull, cxt |-> cxt, raised |-> NoError]
      [] item.type = "jpiBool" -> [value |-> JBool(item.boolean), cxt |-> cxt, raised |-> NoError]
      [] item.type = "jpiNumeric" -> [value |-> JNum(item.numeric), cxt |-> cxt, raised |-> NoError]
      [] item.type = "jpiString" -> [value |-> JStr(item.string), cxt |-> cxt, raised |-> NoError]
      [] item.type = "jpiVariable" -> getJsonPathVariable(cxt, item)
      [] OTHER -> [value |-> JNull, cxt |-> cxt, raised |-> "ERRCODE_INTERNAL_ERROR"]

(* JsonbTypeName(): the name of the type of the item, as a byte string *)
(* ("null", "boolean", "number", "string", "array", "object").         *)
JsonbTypeName(jb) ==
    CASE JsonbType(jb) = "jbvNull" -> <<110, 117, 108, 108>>
      [] JsonbType(jb) = "jbvBool" -> <<98, 111, 111, 108, 101, 97, 110>>
      [] JsonbType(jb) = "jbvNumeric" -> <<110, 117, 109, 98, 101, 114>>
      [] JsonbType(jb) = "jbvString" -> <<115, 116, 114, 105, 110, 103>>
      [] JsonbType(jb) = "jbvArray" -> <<97, 114, 114, 97, 121>>
      [] JsonbType(jb) = "jbvObject" -> <<111, 98, 106, 101, 99, 116>>
      [] OTHER -> <<100, 97, 116, 101, 116, 105, 109, 101>>

(* float8in_internal() on the strings of the model: a non-empty string of  *)
(* decimal digits is its value, every other string is a syntax error (-1). *)
RECURSIVE DigitsValue(_, _, _)
DigitsValue(str, i, acc) ==
    IF i > Len(str) THEN acc
    ELSE IF str[i] < 48 \/ str[i] > 57 THEN -1
    ELSE DigitsValue(str, i + 1, acc * 10 + (str[i] - 48))

float8in_internal(str) == IF Len(str) = 0 THEN -1 ELSE DigitsValue(str, 1, 0)

(* parse_datetime() with the ISO formats, on the strings of the model: a   *)
(* two-byte string <<tag, digit>> is a datetime of the kind named by tag   *)
(* (D date, T time, Z timetz, S timestamp, U timestamptz) with the digit   *)
(* as its instant; every other string fits no format.                      *)
DatetimeTagTypid(tag) ==
    CASE tag = 68 -> "DATEOID"
      [] tag = 84 -> "TIMEOID"
      [] tag = 90 -> "TIMETZOID"
      [] tag = 83 -> "TIMESTAMPOID"
      [] tag = 85 -> "TIMESTAMPTZOID"

parse_datetime(str) ==
    IF Len(str) = 2 /\ str[1] \in {68, 84, 90, 83, 85} /\ str[2] >= 48 /\ str[2] <= 57
    THEN [ok |-> TRUE, typid |-> DatetimeTagTypid(str[1]), value |-> str[2] - 48]
    ELSE [ok |-> FALSE, typid |-> "DATEOID", value |-> 0]

(* The switch of executeDateTimeMethod() that converts the parsed value to *)
(* the type the method names: the resulting typid, "error" for the         *)
(* RETURN_ERROR branches, "tz" for a failing checkTimezoneIsUsedForCast(). *)
DateTimeCast(method, typid, useTz) ==
    CASE method = "jpiDatetime" -> typid
      [] method = "jpiDate" ->
            (CASE typid = "DATEOID" -> "DATEOID"
               [] typid \in {"TIMEOID", "TIMETZOID"} -> "error"
               [] typid = "TIMESTAMPOID" -> "DATEOID"
               [] typid = "TIMESTAMPTZOID" ->
                    IF checkTimezoneIsUsedForCast(useTz) THEN "DATEOID" ELSE "tz")
      [] method = "jpiTime" ->
            (CASE typid = "DATEOID" -> "error"
               [] typid = "TIMEOID" -> "TIMEOID"
               [] typid = "TIMETZOID" ->
                    IF checkTimezoneIsUsedForCast(useTz) THEN "TIMEOID" ELSE "tz"
               [] typid = "TIMESTAMPOID" -> "TIMEOID"
               [] typid = "TIMESTAMPTZOID" ->
                    IF checkTimezoneIsUsedForCast(useTz) THEN "TIMEOID" ELSE "tz")
      [] method = "jpiTimeTz" ->
            (CASE typid \in {"DATEOID", "TIMESTAMPOID"} -> "error"
               [] typid = "TIMEOID" ->
                    IF checkTimezoneIsUsedForCast(useTz) THEN "TIMETZOID" ELSE "tz"
               [] typid = "TIMETZOID" -> "TIMETZOID"
               [] typid = "TIMESTAMPTZOID" -> "TIMETZOID")
      [] method = "jpiTimestamp" ->
            (CASE typid = "DATEOID" -> "TIMESTAMPOID"
               [] typid \in {"TIMEOID", "TIMETZOID"} -> "error"
               [] typid = "TIMESTAMPOID" -> "TIMESTAMPOID"
               [] typid = "TIMESTAMPTZOID" ->
                    IF checkTimezoneIsUsedForCast(useTz) THEN "TIMESTAMPOID" ELSE "tz")
      [] method = "jpiTimestampTz" ->
            (CASE typid = "DATEOID" ->
                    IF checkTimezoneIsUsedForCast(useTz) THEN "TIMESTAMPTZOID" ELSE "tz"
               [] typid \in {"TIMEOID", "TIMETZOID"} -> "error"
               [] typid = "TIMESTAMPOID" ->
                    IF checkTimezoneIsUsedForCast(useTz) THEN "TIMESTAMPTZOID" ELSE "tz"
               [] typid = "TIMESTAMPTZOID" -> "TIMESTAMPTZOID")

(* executeDateTimeMethod(): .datetime() without template and the typed     *)
(* methods without precision.                                              *)
executeDateTimeMethod(cxt, jsp, jb, found) ==
    IF ~getScalar(jb, "jbvString")
    THEN RETURN_ERROR("ERRCODE_INVALID_ARGUMENT_FOR_SQL_JSON_DATETIME_FUNCTION", cxt, found)
    ELSE LET p == parse_datetime(jb.string)
         IN IF ~p.ok
            THEN RETURN_ERROR("ERRCODE_INVALID_ARGUMENT_FOR_SQL_JSON_DATETIME_FUNCTION", cxt, found)
            ELSE LET typid == DateTimeCast(jsp.type, p.typid, cxt.useTz)
                 IN IF typid = "error"
                    THEN RETURN_ERROR("ERRCODE_INVALID_ARGUMENT_FOR_SQL_JSON_DATETIME_FUNCTION",
                                      cxt, found)
                    ELSE IF typid = "tz"
                    THEN Raise("ERRCODE_FEATURE_NOT_SUPPORTED", cxt, found)
                    ELSE IF ~jspHasNext(jsp) /\ ~found.given
                    THEN Res("jperOk", cxt, found)
                    ELSE Call("executeNextItem", <<cxt, jsp, JDatetime(typid, p.value), found>>)

(* executeNumericItemMethod(): .abs(), .floor(), .ceiling(). *)
executeNumericItemMethod(cxt, jsp, jb, unwrap, found) ==
    IF unwrap /\ JsonbType(jb) = "jbvArray"
    THEN Call("executeItemUnwrapTargetArray", <<cxt, jsp, jb, found, FALSE>>)
    ELSE IF ~getScalar(jb, "jbvNumeric")
    THEN RETURN_ERROR("ERRCODE_NON_NUMERIC_SQL_JSON_ITEM", cxt, found)
    ELSE LET datum == IF jsp.type = "jpiAbs" /\ jb.numeric < 0
                      THEN 0 - jb.numeric ELSE jb.numeric
         IN IF ~jspHasNext(jsp) /\ ~found.given
            THEN Res("jperOk", cxt, found)
            ELSE Call("executeNextItem", <<cxt, jsp, JNum(datum), found>>)

(* appendBoolResult() emitting no item for an Unknown verdict. *)
appendBoolResult_UnknownDropped(cxt, jsp, found, res) ==
    IF ~jspHasNext(jsp) /\ ~found.given
    THEN Res(IF res = "jpbUnknown" THEN "jperNotFound" ELSE "jperOk", cxt, found)
    ELSE IF res = "jpbUnknown" THEN Res("jperNotFound", cxt, found)
    ELSE Call("executeNextItem", <<cxt, jsp, JBool(res = "jpbTrue"), found>>)

(* appendBoolResult(): the verdict as a boolean JSON item for the next step *)
appendBoolResult(cxt, jsp, found, res) ==
    IF ~jspHasNext(jsp) /\ ~found.given
    THEN Res("jperOk", cxt, found)
    ELSE Call("executeNextItem", <<cxt, jsp,
                         IF res = "jpbUnknown" THEN JNull ELSE JBool(res = "jpbTrue"),
                         found>>)

(***************************************************************************)
(* Array subscripts.                                                       *)
(***************************************************************************)
(* getArrayIndex(): evaluate a subscript expression to an int32 index.    *)
(* Every numeric of the model fits int32, so numeric_int4_opt_error()     *)
(* never reports an error here.                                           *)
getArrayIndex(cxt, jsp, jb) ==
    LET r == Call("executeItem", <<cxt, jsp, jb, EmptyList>>)
        bad == RETURN_ERROR("ERRCODE_INVALID_SQL_JSON_SUBSCRIPT", r.cxt, EmptyList)
    IN IF IsRaised(r) \/ jperIsError(r.res)
       THEN [res |-> r.res, cxt |-> r.cxt, index |-> 0, raised |-> r.raised]
       ELSE IF JsonValueListLength(r.found) # 1
               \/ ~getScalar(JsonValueListHead(r.found), "jbvNumeric")
       THEN [res |-> bad.res, cxt |-> bad.cxt, index |-> 0, raised |-> bad.raised]
       ELSE [res |-> "jperOk", cxt |-> r.cxt,
             index |-> JsonValueListHead(r.found).numeric, raised |-> NoError]

(* A result of the subscript loops: "returned" is TRUE when the C code     *)
(* leaves the jpiIndexArray case with a return statement or a throw, FALSE *)
(* when it falls out of the loops to the statement after them.             *)
LoopRes(r, returned) ==
    [res |-> r.res, cxt |-> r.cxt, found |-> r.found, raised |-> r.raised,
     returned |-> returned]

(* The inner for loop of jpiIndexArray: indexes index..index_to. *)
IndexArrayRange(cxt, jsp, jb, found, index, index_to, singleton, res) ==
    IF index > index_to THEN LoopRes(Res(res, cxt, found), FALSE)
    ELSE IF ~singleton /\ (index < 0 \/ index >= Len(jb.children))
    THEN Call("IndexArrayRange", <<cxt, jsp, jb, found, index + 1, index_to, singleton, res>>)
    ELSE LET v == IF singleton THEN jb ELSE jb.children[index + 1]
         IN IF ~jspHasNext(jsp) /\ ~found.given
            THEN LoopRes(Res("jperOk", cxt, found), TRUE)
            ELSE LET r == Call("executeNextItem", <<cxt, jsp, v, found>>)
                 IN IF IsRaised(r) THEN LoopRes(r, TRUE)
                    ELSE IF jperIsError(r.res) \/ (r.res = "jperOk" /\ ~found.given)
                    THEN LoopRes(r, FALSE)
                    ELSE Call("IndexArrayRange", <<r.cxt, jsp, jb, r.found, index + 1, index_to,
                                         singleton, r.res>>)

(* The outer loop accepting an upper index equal to the array size. *)
IndexArraySubscripts_OffByOne(cxt, jsp, jb, found, i, size, res) ==
    IF i > Len(jsp.elems) THEN LoopRes(Res(res, cxt, found), FALSE)
    ELSE
    LET sub == jsp.elems[i]
        f == Call("getArrayIndex", <<cxt, sub.from, jb>>)
        t == IF sub.range THEN Call("getArrayIndex", <<f.cxt, sub.to, jb>>) ELSE f
        index_from == f.index
        index_to == t.index
    IN IF f.raised # NoError THEN LoopRes(Raise(f.raised, f.cxt, found), TRUE)
       ELSE IF jperIsError(f.res) THEN LoopRes(Res(f.res, f.cxt, found), FALSE)
       ELSE IF t.raised # NoError THEN LoopRes(Raise(t.raised, t.cxt, found), TRUE)
       ELSE IF jperIsError(t.res) THEN LoopRes(Res(t.res, t.cxt, found), FALSE)
       ELSE IF ~jspIgnoreStructuralErrors(t.cxt)
               /\ (index_from < 0 \/ index_from > index_to \/ index_to > size)
       THEN LoopRes(RETURN_ERROR("ERRCODE_INVALID_SQL_JSON_SUBSCRIPT", t.cxt, found), TRUE)
       ELSE LET from == IF index_from < 0 THEN 0 ELSE index_from
                to == IF index_to >= size THEN size - 1 ELSE index_to
                r == Call("IndexArrayRange", <<t.cxt, jsp, jb, found, from, to,
                                     JsonbArraySize(jb) < 0, "jperNotFound">>)
            IN IF r.returned THEN r
               ELSE IF jperIsError(r.res) \/ (r.res = "jperOk" /\ ~found.given) THEN r
               ELSE Call("IndexArraySubscripts", <<r.cxt, jsp, jb, r.found, i + 1, size, r.res>>)

(* The outer for loop of jpiIndexArray: subscripts i..nelems. *)
IndexArraySubscripts(cxt, jsp, jb, found, i, size, res) ==
    IF i > Len(jsp.elems) THEN LoopRes(Res(res, cxt, found), FALSE)
    ELSE
    LET sub == jsp.elems[i]
        f == Call("getArrayIndex", <<cxt, sub.from, jb>>)
        t == IF sub.range THEN Call("getArrayIndex", <<f.cxt, sub.to, jb>>) ELSE f
        index_from == f.index
        index_to == t.index
    IN IF f.raised # NoError THEN LoopRes(Raise(f.raised, f.cxt, found), TRUE)
       ELSE IF jperIsError(f.res) THEN LoopRes(Res(f.res, f.cxt, found), FALSE)
       ELSE IF t.raised # NoError THEN LoopRes(Raise(t.raised, t.cxt, found), TRUE)
       ELSE IF jperIsError(t.res) THEN LoopRes(Res(t.res, t.cxt, found), FALSE)
       ELSE IF ~jspIgnoreStructuralErrors(t.cxt)
               /\ (index_from < 0 \/ index_from > index_to \/ index_to >= size)
       THEN LoopRes(RETURN_ERROR("ERRCODE_INVALID_SQL_JSON_SUBSCRIPT", t.cxt, found), TRUE)
       ELSE LET from == IF index_from < 0 THEN 0 ELSE index_from
                to == IF index_to >= size THEN size - 1 ELSE index_to
                r == Call("IndexArrayRange", <<t.cxt, jsp, jb, found, from, to,
                                     JsonbArraySize(jb) < 0, "jperNotFound">>)
            IN IF r.returned THEN r
               ELSE IF jperIsError(r.res) \/ (r.res = "jperOk" /\ ~found.given) THEN r
               ELSE Call("IndexArraySubscripts", <<r.cxt, jsp, jb, r.found, i + 1, size, r.res>>)

(* case jpiIndexArray of executeItemOptUnwrapTarget(). *)
IndexArrayStep(cxt, jsp, jb, found) ==
    IF JsonbType(jb) = "jbvArray" \/ jspAutoWrap(cxt)
    THEN LET innermostArraySize == cxt.innermostArraySize
             size == IF JsonbArraySize(jb) < 0 THEN 1 ELSE JsonbArraySize(jb)
             r == Call("IndexArraySubscripts", <<[cxt EXCEPT !.innermostArraySize = size],
                                       jsp, jb, found, 1, size, "jperNotFound">>)
         IN IF r.returned THEN [res |-> r.res, cxt |-> r.cxt, found |-> r.found, raised |-> r.raised]
            ELSE Res(r.res, [r.cxt EXCEPT !.innermostArraySize = innermostArraySize], r.found)
    ELSE IF ~jspIgnoreStructuralErrors(cxt)
    THEN RETURN_ERROR("ERRCODE_SQL_JSON_ARRAY_NOT_FOUND", cxt, found)
    ELSE Res("jperNotFound", cxt, found)

(***************************************************************************)
(* Arithmetic.                                                             *)
(***************************************************************************)
(* numeric_add/sub/mul/mod_opt_error(): the value and the error flag. *)
BinaryArithmFunc(type, num1, num2) ==
    CASE type = "jpiAdd" -> [value |-> num1 + num2, error |-> FALSE]
      [] type = "jpiSub" -> [value |-> num1 - num2, error |-> FALSE]
      [] type = "jpiMul" -> [value |-> num1 * num2, error |-> FALSE]
      [] type = "jpiMod" ->
            IF num2 = 0 THEN [value |-> 0, error |-> TRUE]
            ELSE LET Abs(n) == IF n < 0 THEN 0 - n ELSE n
                 IN [value |-> Sign(num1) * (Abs(num1) % Abs(num2)), error |-> FALSE]

(* executeBinaryArithmExpr(): both operands must be numeric singletons. *)
executeBinaryArithmExpr(cxt, jsp, jb, found) ==
    LET l == Call("executeItemOptUnwrapResult", <<cxt, jsp.left, jb, TRUE, EmptyList>>)
    IN IF IsRaised(l) \/ jperIsError(l.res) THEN [l EXCEPT !.found = found]
       ELSE
    LET r == Call("executeItemOptUnwrapResult", <<l.cxt, jsp.right, jb, TRUE, EmptyList>>)
    IN IF IsRaised(r) \/ jperIsError(r.res) THEN [r EXCEPT !.found = found]
       ELSE IF JsonValueListLength(l.found) # 1
               \/ ~getScalar(JsonValueListHead(l.found), "jbvNumeric")
       THEN RETURN_ERROR("ERRCODE_SINGLETON_SQL_JSON_ITEM_REQUIRED", r.cxt, found)
       ELSE IF JsonValueListLength(r.found) # 1
               \/ ~getScalar(JsonValueListHead(r.found), "jbvNumeric")
       THEN RETURN_ERROR("ERRCODE_SINGLETON_SQL_JSON_ITEM_REQUIRED", r.cxt, found)
       ELSE LET res == BinaryArithmFunc(jsp.type, JsonValueListHead(l.found).numeric,
                                        JsonValueListHead(r.found).numeric)
            IN IF res.error
               THEN (IF jspThrowErrors(r.cxt)
                     THEN Raise("ERRCODE_DIVISION_BY_ZERO", r.cxt, found)
                     ELSE Res("jperError", r.cxt, found))
               ELSE IF ~jspHasNext(jsp) /\ ~found.given THEN Res("jperOk", r.cxt, found)
               ELSE Call("executeNextItem", <<r.cxt, jsp, JNum(res.value), found>>)

(* The while loop of executeUnaryArithmExpr() skipping every non-numeric   *)
(* item, also when the items are collected.                                *)
UnaryArithmLoop_SkipsNonNumeric(cxt, jsp, seq, i, found, jper) ==
    IF i > Len(seq) THEN Res(jper, cxt, found)
    ELSE LET val == seq[i]
             hasNext == jspHasNext(jsp)
         IN IF getScalar(val, "jbvNumeric") /\ ~found.given /\ ~hasNext
            THEN Res("jperOk", cxt, found)
            ELSE IF ~getScalar(val, "jbvNumeric")
            THEN Call("UnaryArithmLoop", <<cxt, jsp, seq, i + 1, found, jper>>)
            ELSE LET num == IF jsp.type = "jpiMinus" THEN 0 - val.numeric ELSE val.numeric
                     jper2 == Call("executeNextItem", <<cxt, jsp, JNum(num), found>>)
                 IN IF IsRaised(jper2) \/ jperIsError(jper2.res) THEN jper2
                    ELSE IF jper2.res = "jperOk" /\ ~found.given THEN jper2
                    ELSE Call("UnaryArithmLoop", <<jper2.cxt, jsp, seq, i + 1, jper2.found,
                                         IF jper2.res = "jperOk" THEN "jperOk" ELSE jper>>)

(* The while loop of executeUnaryArithmExpr() over seq from item i on. *)
UnaryArithmLoop(cxt, jsp, seq, i, found, jper) ==
    IF i > Len(seq) THEN Res(jper, cxt, found)
    ELSE LET val == seq[i]
             hasNext == jspHasNext(jsp)
         IN IF getScalar(val, "jbvNumeric") /\ ~found.given /\ ~hasNext
            THEN Res("jperOk", cxt, found)
            ELSE IF ~getScalar(val, "jbvNumeric") /\ ~found.given /\ ~hasNext
            THEN Call("UnaryArithmLoop", <<cxt, jsp, seq, i + 1, found, jper>>)
            ELSE IF ~getScalar(val, "jbvNumeric")
            THEN RETURN_ERROR("ERRCODE_SQL_JSON_NUMBER_NOT_FOUND", cxt, found)
            ELSE LET num == IF jsp.type = "jpiMinus" THEN 0 - val.numeric ELSE val.numeric
                     jper2 == Call("executeNextItem", <<cxt, jsp, JNum(num), found>>)
                 IN IF IsRaised(jper2) \/ jperIsError(jper2.res) THEN jper2
                    ELSE IF jper2.res = "jperOk" /\ ~found.given THEN jper2
                    ELSE Call("UnaryArithmLoop", <<jper2.cxt, jsp, seq, i + 1, jper2.found,
                                         IF jper2.res = "jperOk" THEN "jperOk" ELSE jper>>)

(* executeUnaryArithmExpr(): unary plus and minus over the operand's items *)
executeUnaryArithmExpr(cxt, jsp, jb, found) ==
    LET r == Call("executeItemOptUnwrapResult", <<cxt, jsp.arg, jb, TRUE, EmptyList>>)
    IN IF IsRaised(r) \/ jperIsError(r.res) THEN [r EXCEPT !.found = found]
       ELSE Call("UnaryArithmLoop", <<r.cxt, jsp, r.found.items, 1, found, "jperNotFound">>)

(***************************************************************************)
(* Predicates.                                                             *)
(***************************************************************************)
(* RE_compile_and_execute() for the patterns of the model: a pattern       *)
(* without metacharacters matches when it occurs in the string.            *)
RE_compile_and_execute(pattern, str) ==
    \E k \in 0..(Len(str) - Len(pattern)) :
        \A j \in 1..Len(pattern) : str[k + j] = pattern[j]

(* executeLikeRegex(): LIKE_REGEX predicate callback. *)
executeLikeRegex(jsp, str) ==
    IF ~getScalar(str, "jbvString") THEN BoolRes("jpbUnknown")
    ELSE IF RE_compile_and_execute(jsp.pattern, str.string) THEN BoolRes("jpbTrue")
    ELSE BoolRes("jpbFalse")

(* executeComparison(): comparison predicate callback. *)
executeComparison(cmp, lv, rv, cxt) == compareItems(cmp.type, lv, rv, cxt.useTz)

(* The callback "exec" that executeBoolItem() hands to executePredicate(). *)
PredicateCallback(pred, lval, rval, cxt) ==
    CASE pred.type \in ComparisonOps -> executeComparison(pred, lval, rval, cxt)
      [] pred.type = "jpiStartsWith" -> executeStartsWith(lval, rval)
      [] pred.type = "jpiLikeRegex" -> executeLikeRegex(pred, lval)

(* The loops returning at the first Unknown pair in lax mode too. *)
PredicateLoop_AlwaysStrict(cxt, pred, lseq, rseq, hasRarg, li, ri, error, found) ==
    IF li > Len(lseq)
    THEN (IF found THEN BoolRes("jpbTrue")
          ELSE IF error THEN BoolRes("jpbUnknown")
          ELSE BoolRes("jpbFalse"))
    ELSE IF ri > (IF hasRarg THEN Len(rseq) ELSE 1)
    THEN Call("PredicateLoop", <<cxt, pred, lseq, rseq, hasRarg, li + 1, 1, error, found>>)
    ELSE LET res == PredicateCallback(pred, lseq[li],
                                      IF hasRarg THEN rseq[ri] ELSE NullItem, cxt)
         IN IF res.raised # NoError THEN res
            ELSE IF res.st = "jpbUnknown" /\ TRUE
            THEN BoolRes("jpbUnknown")
            ELSE IF res.st = "jpbTrue" /\ ~TRUE
            THEN BoolRes("jpbTrue")
            ELSE Call("PredicateLoop", <<cxt, pred, lseq, rseq, hasRarg, li, ri + 1,
                               error \/ res.st = "jpbUnknown",
                               found \/ res.st = "jpbTrue">>)

(* The loops returning at the first True pair in strict mode too. *)
PredicateLoop_AlwaysLax(cxt, pred, lseq, rseq, hasRarg, li, ri, error, found) ==
    IF li > Len(lseq)
    THEN (IF found THEN BoolRes("jpbTrue")
          ELSE IF error THEN BoolRes("jpbUnknown")
          ELSE BoolRes("jpbFalse"))
    ELSE IF ri > (IF hasRarg THEN Len(rseq) ELSE 1)
    THEN Call("PredicateLoop", <<cxt, pred, lseq, rseq, hasRarg, li + 1, 1, error, found>>)
    ELSE LET res == PredicateCallback(pred, lseq[li],
                                      IF hasRarg THEN rseq[ri] ELSE NullItem, cxt)
         IN IF res.raised # NoError THEN res
            ELSE IF res.st = "jpbUnknown" /\ FALSE
            THEN BoolRes("jpbUnknown")
            ELSE IF res.st = "jpbTrue" /\ ~FALSE
            THEN BoolRes("jpbTrue")
            ELSE Call("PredicateLoop", <<cxt, pred, lseq, rseq, hasRarg, li, ri + 1,
                               error \/ res.st = "jpbUnknown",
                               found \/ res.st = "jpbTrue">>)

(* The nested while loops of executePredicate(): the pair (li, ri) and the *)
(* pairs after it; error and found are the flags of the C code.  Without a *)
(* right argument there is a single pass per left item.                    *)
PredicateLoop(cxt, pred, lseq, rseq, hasRarg, li, ri, error, found) ==
    IF li > Len(lseq)
    THEN (IF found THEN BoolRes("jpbTrue")
          ELSE IF error THEN BoolRes("jpbUnknown")
          ELSE BoolRes("jpbFalse"))
    ELSE IF ri > (IF hasRarg THEN Len(rseq) ELSE 1)
    THEN Call("PredicateLoop", <<cxt, pred, lseq, rseq, hasRarg, li + 1, 1, error, found>>)
    ELSE LET res == PredicateCallback(pred, lseq[li],
                                      IF hasRarg THEN rseq[ri] ELSE NullItem, cxt)
         IN IF res.raised # NoError THEN res
            ELSE IF res.st = "jpbUnknown" /\ jspStrictAbsenceOfErrors(cxt)
            THEN BoolRes("jpbUnknown")
            ELSE IF res.st = "jpbTrue" /\ ~jspStrictAbsenceOfErrors(cxt)
            THEN BoolRes("jpbTrue")
            ELSE Call("PredicateLoop", <<cxt, pred, lseq, rseq, hasRarg, li, ri + 1,
                               error \/ res.st = "jpbUnknown",
                               found \/ res.st = "jpbTrue">>)

(* executePredicate(): unary or binary predicate with existence semantics. *)
executePredicate(cxt, pred, larg, rarg, jb, unwrapRightArg) ==
    LET l == Call("executeItemOptUnwrapResultNoThrow", <<cxt, larg, jb, TRUE, EmptyList>>)
    IN IF IsRaised(l) THEN BRaise(l.raised, l.cxt)
       ELSE IF jperIsError(l.res) THEN BRes("jpbUnknown", l.cxt)
       ELSE
    LET r == IF rarg.type # "NULL"
             THEN Call("executeItemOptUnwrapResultNoThrow", <<l.cxt, rarg, jb, unwrapRightArg, EmptyList>>)
             ELSE Res("jperOk", l.cxt, EmptyList)
    IN IF IsRaised(r) THEN BRaise(r.raised, r.cxt)
       ELSE IF jperIsError(r.res) THEN BRes("jpbUnknown", r.cxt)
       ELSE LET st == Call("PredicateLoop", <<r.cxt, pred, l.found.items, r.found.items,
                                    rarg.type # "NULL", 1, 1, FALSE, FALSE>>)
            IN IF st.raised # NoError THEN BRaise(st.raised, r.cxt)
               ELSE BRes(st.st, r.cxt)

(* The return statements of the jpiAnd, jpiOr, jpiNot and jpiIsUnknown     *)
(* cases of executeBoolItem(), given the verdicts of the operands.         *)
(* jpiAnd returning the left verdict unless it is True. *)
AndResult_LeftFirst(res, res2) == IF res = "jpbTrue" THEN res2 ELSE res
AndResult(res, res2) == IF res2 = "jpbTrue" THEN res ELSE res2
OrResult(res, res2) == IF res2 = "jpbFalse" THEN res ELSE res2
NotResult(res) ==
    IF res = "jpbUnknown" THEN "jpbUnknown"
    ELSE IF res = "jpbTrue" THEN "jpbFalse" ELSE "jpbTrue"
IsUnknownResult(res) == IF res = "jpbUnknown" THEN "jpbTrue" ELSE "jpbFalse"

(* case jpiExists of executeBoolItem(). *)
ExistsItem(cxt, jsp, jb) ==
    IF jspStrictAbsenceOfErrors(cxt)
    THEN LET res == Call("executeItemOptUnwrapResultNoThrow", <<cxt, jsp.arg, jb, FALSE, EmptyList>>)
         IN IF IsRaised(res) THEN BRaise(res.raised, res.cxt)
            ELSE IF jperIsError(res.res) THEN BRes("jpbUnknown", res.cxt)
            ELSE BRes(IF JsonValueListIsEmpty(res.found) THEN "jpbFalse" ELSE "jpbTrue", res.cxt)
    ELSE LET res == Call("executeItemOptUnwrapResultNoThrow", <<cxt, jsp.arg, jb, FALSE, NoList>>)
         IN IF IsRaised(res) THEN BRaise(res.raised, res.cxt)
            ELSE IF jperIsError(res.res) THEN BRes("jpbUnknown", res.cxt)
            ELSE BRes(IF res.res = "jperOk" THEN "jpbTrue" ELSE "jpbFalse", res.cxt)

(* executeBoolItem() evaluating the right operand of AND and OR whatever   *)
(* the verdict of the left one.                                            *)
executeBoolItem_NoShortCircuit(cxt, jsp, jb, canHaveNext) ==
    IF ~canHaveNext /\ jspHasNext(jsp) THEN BRaise("ERRCODE_INTERNAL_ERROR", cxt)
    ELSE
    CASE jsp.type = "jpiAnd" ->
            LET res == Call("executeBoolItem", <<cxt, jsp.left, jb, FALSE>>)
            IN IF IsRaised(res) THEN res
               ELSE LET res2 == Call("executeBoolItem", <<res.cxt, jsp.right, jb, FALSE>>)
                    IN IF IsRaised(res2) THEN res2
                       ELSE BRes(AndResult(res.st, res2.st), res2.cxt)
      [] jsp.type = "jpiOr" ->
            LET res == Call("executeBoolItem", <<cxt, jsp.left, jb, FALSE>>)
            IN IF IsRaised(res) THEN res
               ELSE LET res2 == Call("executeBoolItem", <<res.cxt, jsp.right, jb, FALSE>>)
                    IN IF IsRaised(res2) THEN res2
                       ELSE BRes(OrResult(res.st, res2.st), res2.cxt)
      [] jsp.type = "jpiNot" ->
            LET res == Call("executeBoolItem", <<cxt, jsp.arg, jb, FALSE>>)
            IN IF IsRaised(res) THEN res ELSE BRes(NotResult(res.st), res.cxt)
      [] jsp.type = "jpiIsUnknown" ->
            LET res == Call("executeBoolItem", <<cxt, jsp.arg, jb, FALSE>>)
            IN IF IsRaised(res) THEN res ELSE BRes(IsUnknownResult(res.st), res.cxt)
      [] jsp.type \in ComparisonOps ->
            Call("executePredicate", <<cxt, jsp, jsp.left, jsp.right, jb, TRUE>>)
      [] jsp.type = "jpiStartsWith" ->
            Call("executePredicate", <<cxt, jsp, jsp.left, jsp.right, jb, FALSE>>)
      [] jsp.type = "jpiLikeRegex" ->
            Call("executePredicate", <<cxt, jsp, jsp.expr, NullItem, jb, FALSE>>)
      [] jsp.type = "jpiExists" -> ExistsItem(cxt, jsp, jb)
      [] OTHER -> BRaise("ERRCODE_INTERNAL_ERROR", cxt)

(* executeBoolItem(): execute a boolean-valued jsonpath expression. *)
executeBoolItem(cxt, jsp, jb, canHaveNext) ==
    IF ~canHaveNext /\ jspHasNext(jsp) THEN BRaise("ERRCODE_INTERNAL_ERROR", cxt)
    ELSE
    CASE jsp.type = "jpiAnd" ->
            LET res == Call("executeBoolItem", <<cxt, jsp.left, jb, FALSE>>)
            IN IF IsRaised(res) THEN res
               ELSE IF res.st = "jpbFalse" THEN BRes("jpbFalse", res.cxt)
               ELSE LET res2 == Call("executeBoolItem", <<res.cxt, jsp.right, jb, FALSE>>)
                    IN IF IsRaised(res2) THEN res2
                       ELSE BRes(AndResult(res.st, res2.st), res2.cxt)
      [] jsp.type = "jpiOr" ->
            LET res == Call("executeBoolItem", <<cxt, jsp.left, jb, FALSE>>)
            IN IF IsRaised(res) THEN res
               ELSE IF res.st = "jpbTrue" THEN BRes("jpbTrue", res.cxt)
               ELSE LET res2 == Call("executeBoolItem", <<res.cxt, jsp.right, jb, FALSE>>)
                    IN IF IsRaised(res2) THEN res2
                       ELSE BRes(OrResult(res.st, res2.st), res2.cxt)
      [] jsp.type = "jpiNot" ->
            LET res == Call("executeBoolItem", <<cxt, jsp.arg, jb, FALSE>>)
            IN IF IsRaised(res) THEN res ELSE BRes(NotResult(res.st), res.cxt)
      [] jsp.type = "jpiIsUnknown" ->
            LET res == Call("executeBoolItem", <<cxt, jsp.arg, jb, FALSE>>)
            IN IF IsRaised(res) THEN res ELSE BRes(IsUnknownResult(res.st), res.cxt)
      [] jsp.type \in ComparisonOps ->
            Call("executePredicate", <<cxt, jsp, jsp.left, jsp.right, jb, TRUE>>)
      [] jsp.type = "jpiStartsWith" ->
            Call("executePredicate", <<cxt, jsp, jsp.left, jsp.right, jb, FALSE>>)
      [] jsp.type = "jpiLikeRegex" ->
            Call("executePredicate", <<cxt, jsp, jsp.expr, NullItem, jb, FALSE>>)
      [] jsp.type = "jpiExists" -> ExistsItem(cxt, jsp, jb)
      [] OTHER -> BRaise("ERRCODE_INTERNAL_ERROR", cxt)

(* executeNestedBoolItem(): execute a boolean expression with the current *)
(* item pushed onto the stack.                                            *)
executeNestedBoolItem(cxt, jsp, jb) ==
    LET prev == cxt.current
        res == Call("executeBoolItem", <<[cxt EXCEPT !.current = jb], jsp, jb, FALSE>>)
    IN IF IsRaised(res) THEN res
       ELSE [res EXCEPT !.cxt.current = prev]

(* The literal cases skipping the evaluation of a last-step variable too. *)
LiteralStep_SkipVariable(cxt, jsp, jb, found) ==
    IF ~jspHasNext(jsp) /\ ~found.given
    THEN Res("jperOk", cxt, found)
    ELSE LET baseObject == cxt.baseObject
             v == getJsonPathItem(cxt, jsp)
         IN IF v.raised # NoError THEN Raise(v.raised, v.cxt, found)
            ELSE LET res == Call("executeNextItem", <<v.cxt, jsp, v.value, found>>)
                 IN IF IsRaised(res) THEN res
                    ELSE [res EXCEPT !.cxt.baseObject = baseObject]

(***************************************************************************)
(* The main executor: the cases of executeItemOptUnwrapTarget().           *)
(***************************************************************************)
(* cases jpiNull, jpiBool, jpiNumeric, jpiString, jpiVariable *)
LiteralStep(cxt, jsp, jb, found) ==
    IF ~jspHasNext(jsp) /\ ~found.given /\ jsp.type # "jpiVariable"
    THEN Res("jperOk", cxt, found)
    ELSE LET baseObject == cxt.baseObject
             v == getJsonPathItem(cxt, jsp)
         IN IF v.raised # NoError THEN Raise(v.raised, v.cxt, found)
            ELSE LET res == Call("executeNextItem", <<v.cxt, jsp, v.value, found>>)
                 IN IF IsRaised(res) THEN res
                    ELSE [res EXCEPT !.cxt.baseObject = baseObject]

(* case jpiAnyArray raising the structural error in every mode. *)
AnyArrayStep_NeverWraps(cxt, jsp, jb, found) ==
    IF JsonbType(jb) = "jbvArray"
    THEN Call("executeItemUnwrapTargetArray", <<cxt, IF jspHasNext(jsp) THEN jsp.next ELSE NullItem,
                                      jb, found, jspAutoUnwrap(cxt)>>)
    ELSE RETURN_ERROR("ERRCODE_SQL_JSON_ARRAY_NOT_FOUND", cxt, found)

(* case jpiAnyArray *)
AnyArrayStep(cxt, jsp, jb, found) ==
    IF JsonbType(jb) = "jbvArray"
    THEN Call("executeItemUnwrapTargetArray", <<cxt, IF jspHasNext(jsp) THEN jsp.next ELSE NullItem,
                                      jb, found, jspAutoUnwrap(cxt)>>)
    ELSE IF jspAutoWrap(cxt) THEN Call("executeNextItem", <<cxt, jsp, jb, found>>)
    ELSE IF ~jspIgnoreStructuralErrors(cxt)
    THEN RETURN_ERROR("ERRCODE_SQL_JSON_ARRAY_NOT_FOUND", cxt, found)
    ELSE Res("jperNotFound", cxt, found)

(* case jpiAnyKey *)
AnyKeyStep(cxt, jsp, jb, found, unwrap) ==
    IF JsonbType(jb) = "jbvObject"
    THEN Call("executeAnyItem", <<cxt, IF jspHasNext(jsp) THEN jsp.next ELSE NullItem,
                        jb, found, 1, 1, 1, FALSE, jspAutoUnwrap(cxt)>>)
    ELSE IF unwrap /\ JsonbType(jb) = "jbvArray"
    THEN Call("executeItemUnwrapTargetArray", <<cxt, jsp, jb, found, FALSE>>)
    ELSE IF ~jspIgnoreStructuralErrors(cxt)
    THEN RETURN_ERROR("ERRCODE_SQL_JSON_OBJECT_NOT_FOUND", cxt, found)
    ELSE Res("jperNotFound", cxt, found)

(* case jpiAny *)
AnyStep(cxt, jsp, jb, found) ==
    LET r0 == IF jsp.first = 0
              THEN LET savedIgnoreStructuralErrors == cxt.ignoreStructuralErrors
                       r == Call("executeNextItem", <<[cxt EXCEPT !.ignoreStructuralErrors = TRUE],
                                            jsp, jb, found>>)
                   IN IF IsRaised(r) THEN r
                      ELSE [r EXCEPT !.cxt.ignoreStructuralErrors = savedIgnoreStructuralErrors]
              ELSE Res("jperNotFound", cxt, found)
    IN IF IsRaised(r0) THEN r0
       ELSE IF jsp.first = 0 /\ r0.res = "jperOk" /\ ~found.given THEN r0
       ELSE IF jb.type = "jbvBinary"
       THEN Call("executeAnyItem", <<r0.cxt, IF jspHasNext(jsp) THEN jsp.next ELSE NullItem,
                           jb, r0.found, 1, jsp.first, jsp.last, TRUE, jspAutoUnwrap(r0.cxt)>>)
       ELSE r0

(* case jpiKey yielding nothing for a missing key in every mode. *)
KeyStep_MissingIsEmpty(cxt, jsp, jb, found, unwrap) ==
    IF JsonbType(jb) = "jbvObject"
    THEN LET v == findJsonbValueFromContainer(jb, jsp.string)
         IN IF v # 0 THEN Call("executeNextItem", <<cxt, jsp, jb.children[v].value, found>>)
            ELSE Res("jperNotFound", cxt, found)
    ELSE IF unwrap /\ JsonbType(jb) = "jbvArray"
    THEN Call("executeItemUnwrapTargetArray", <<cxt, jsp, jb, found, FALSE>>)
    ELSE IF ~jspIgnoreStructuralErrors(cxt)
    THEN RETURN_ERROR("ERRCODE_SQL_JSON_MEMBER_NOT_FOUND", cxt, found)
    ELSE Res("jperNotFound", cxt, found)

(* case jpiKey *)
KeyStep(cxt, jsp, jb, found, unwrap) ==
    IF JsonbType(jb) = "jbvObject"
    THEN LET v == findJsonbValueFromContainer(jb, jsp.string)
         IN IF v # 0 THEN Call("executeNextItem", <<cxt, jsp, jb.children[v].value, found>>)
            ELSE IF ~jspIgnoreStructuralErrors(cxt)
            THEN (IF ~jspThrowErrors(cxt) THEN Res("jperError", cxt, found)
                  ELSE Raise("ERRCODE_SQL_JSON_MEMBER_NOT_FOUND", cxt, found))
            ELSE Res("jperNotFound", cxt, found)
    ELSE IF unwrap /\ JsonbType(jb) = "jbvArray"
    THEN Call("executeItemUnwrapTargetArray", <<cxt, jsp, jb, found, FALSE>>)
    ELSE IF ~jspIgnoreStructuralErrors(cxt)
    THEN RETURN_ERROR("ERRCODE_SQL_JSON_MEMBER_NOT_FOUND", cxt, found)
    ELSE Res("jperNotFound", cxt, found)

(* case jpiRoot *)
RootStep(cxt, jsp, found) ==
    LET baseObject == cxt.baseObject
        res == Call("executeNextItem", <<setBaseObject(cxt, cxt.root, 0), jsp, cxt.root, found>>)
    IN IF IsRaised(res) THEN res
       ELSE [res EXCEPT !.cxt.baseObject = baseObject]

(* case jpiFilter passing the item also when the predicate is Unknown. *)
FilterStep_UnknownPasses(cxt, jsp, jb, found, unwrap) ==
    IF unwrap /\ JsonbType(jb) = "jbvArray"
    THEN Call("executeItemUnwrapTargetArray", <<cxt, jsp, jb, found, FALSE>>)
    ELSE LET st == Call("executeNestedBoolItem", <<cxt, jsp.arg, jb>>)
         IN IF IsRaised(st) THEN Raise(st.raised, st.cxt, found)
            ELSE IF st.st = "jpbFalse" THEN Res("jperNotFound", st.cxt, found)
            ELSE Call("executeNextItem", <<st.cxt, jsp, jb, found>>)

(* case jpiFilter *)
FilterStep(cxt, jsp, jb, found, unwrap) ==
    IF unwrap /\ JsonbType(jb) = "jbvArray"
    THEN Call("executeItemUnwrapTargetArray", <<cxt, jsp, jb, found, FALSE>>)
    ELSE LET st == Call("executeNestedBoolItem", <<cxt, jsp.arg, jb>>)
         IN IF IsRaised(st) THEN Raise(st.raised, st.cxt, found)
            ELSE IF st.st # "jpbTrue" THEN Res("jperNotFound", st.cxt, found)
            ELSE Call("executeNextItem", <<st.cxt, jsp, jb, found>>)

(* case jpiSize *)
SizeStep(cxt, jsp, jb, found) ==
    LET size == JsonbArraySize(jb)
    IN IF size < 0 /\ ~jspAutoWrap(cxt)
       THEN (IF ~jspIgnoreStructuralErrors(cxt)
             THEN RETURN_ERROR("ERRCODE_SQL_JSON_ARRAY_NOT_FOUND", cxt, found)
             ELSE Res("jperNotFound", cxt, found))
       ELSE Call("executeNextItem", <<cxt, jsp, JNum(IF size < 0 THEN 1 ELSE size), found>>)

(* case jpiDouble *)
DoubleStep(cxt, jsp, jb, found, unwrap) ==
    IF unwrap /\ JsonbType(jb) = "jbvArray"
    THEN Call("executeItemUnwrapTargetArray", <<cxt, jsp, jb, found, FALSE>>)
    ELSE IF jb.type = "jbvNumeric" THEN Call("executeNextItem", <<cxt, jsp, jb, found>>)
    ELSE IF jb.type = "jbvString"
    THEN LET val == float8in_internal(jb.string)
         IN IF val < 0 THEN RETURN_ERROR("ERRCODE_NON_NUMERIC_SQL_JSON_ITEM", cxt, found)
            ELSE Call("executeNextItem", <<cxt, jsp, JNum(val), found>>)
    ELSE RETURN_ERROR("ERRCODE_NON_NUMERIC_SQL_JSON_ITEM", cxt, found)

(* case jpiLast *)
LastStep(cxt, jsp, found) ==
    IF cxt.innermostArraySize < 0 THEN Raise("ERRCODE_INTERNAL_ERROR", cxt, found)
    ELSE IF ~jspHasNext(jsp) /\ ~found.given THEN Res("jperOk", cxt, found)
    ELSE Call("executeNextItem", <<cxt, jsp, JNum(cxt.innermostArraySize - 1), found>>)

(* The factor that separates the id of the base object from the offset    *)
(* inside it (10000000000 in the C code).  TLC's integers are 32-bit       *)
(* signed, so the factor is scaled down; every offset of the model stays   *)
(* below it, as every offset of a jsonb stays below the factor of the code.*)
BaseObjectIdFactor == 10000

(* The address of a container; the NULL container is address 0. *)
ContainerAddr(jbc) == IF jbc.type = "NULL" THEN 0 ELSE jbc.addr

(* JsonbValueToJsonb() copying a value into a new jsonb: every container   *)
(* inside it moves by d.                                                   *)
RECURSIVE MoveContainers(_, _)
MoveContainers(v, d) ==
    IF v.type # "jbvBinary" THEN v
    ELSE [type |-> "jbvBinary", kind |-> v.kind, addr |-> v.addr + d,
          children |-> [i \in 1..Len(v.children) |->
                           IF v.kind = "jbvObject"
                           THEN JPair(v.children[i].key, MoveContainers(v.children[i].value, d))
                           ELSE MoveContainers(v.children[i], d)]]

KeyValueKeys == [keystr |-> <<107, 101, 121>>, valstr |-> <<118, 97, 108, 117, 101>>,
                 idstr |-> <<105, 100>>]

(* The object {"id", "key", "value"} built for one pair: a jsonb of its    *)
(* own, its root container at address 0 and the copied value behind it.    *)
KeyValueObject(key, val, id) ==
    JObjAt(0, <<JPair(KeyValueKeys.idstr, JNum(id)),
                JPair(KeyValueKeys.keystr, JStr(key)),
                JPair(KeyValueKeys.valstr, MoveContainers(val, 1 - ContainerAddr(val)))>>)

(* The while loop of executeKeyValueMethod() from pair i on; res is the    *)
(* status so far.                                                          *)
KeyValueLoop(cxt, jsp, jb, found, id, i, res) ==
    IF i > Len(jb.children) THEN Res(res, cxt, found)
    ELSE IF ~jspHasNext(jsp) /\ ~found.given THEN Res("jperOk", cxt, found)
    ELSE LET obj == KeyValueObject(jb.children[i].key, jb.children[i].value, id)
             baseObject == cxt.baseObject
             gen == [setBaseObject(cxt, obj, cxt.lastGeneratedObjectId)
                        EXCEPT !.lastGeneratedObjectId = @ + 1]
             r == Call("executeNextItem", <<gen, jsp, obj, found>>)
         IN IF IsRaised(r) THEN r
            ELSE LET back == [r.cxt EXCEPT !.baseObject = baseObject]
                 IN IF jperIsError(r.res) THEN Res(r.res, back, r.found)
                    ELSE IF r.res = "jperOk" /\ ~found.given THEN Res(r.res, back, r.found)
                    ELSE Call("KeyValueLoop", <<back, jsp, jb, r.found, id, i + 1, r.res>>)

(* executeKeyValueMethod() taking the offset alone as the id. *)
executeKeyValueMethod_OffsetOnly(cxt, jsp, jb, found) ==
    IF JsonbType(jb) # "jbvObject" \/ jb.type # "jbvBinary"
    THEN RETURN_ERROR("ERRCODE_SQL_JSON_OBJECT_NOT_FOUND", cxt, found)
    ELSE IF Len(jb.children) = 0 THEN Res("jperNotFound", cxt, found)
    ELSE LET id == ContainerAddr(jb) - ContainerAddr(cxt.baseObject.jbc)
         IN Call("KeyValueLoop", <<cxt, jsp, jb, found, id, 1, "jperNotFound">>)

(* executeKeyValueMethod(): the .keyvalue() item method. *)
executeKeyValueMethod(cxt, jsp, jb, found) ==
    IF JsonbType(jb) # "jbvObject" \/ jb.type # "jbvBinary"
    THEN RETURN_ERROR("ERRCODE_SQL_JSON_OBJECT_NOT_FOUND", cxt, found)
    ELSE IF Len(jb.children) = 0 THEN Res("jperNotFound", cxt, found)
    ELSE LET id == (ContainerAddr(jb) - ContainerAddr(cxt.baseObject.jbc))
                   + cxt.baseObject.id * BaseObjectIdFactor
         IN Call("KeyValueLoop", <<cxt, jsp, jb, found, id, 1, "jperNotFound">>)

(* executeItemOptUnwrapTarget(): the main jsonpath executor function. *)
executeItemOptUnwrapTarget(cxt, jsp, jb, found, unwrap) ==
    CASE jsp.type \in {"jpiNull", "jpiBool", "jpiNumeric", "jpiString", "jpiVariable"} -> LiteralStep(cxt, jsp, jb, found)
      [] jsp.type \in BoolItems ->
            LET st == Call("executeBoolItem", <<cxt, jsp, jb, TRUE>>)
            IN IF IsRaised(st) THEN Raise(st.raised, st.cxt, found)
               ELSE Call("appendBoolResult", <<st.cxt, jsp, found, st.st>>)
      [] jsp.type \in BinaryArithmItems -> Call("executeBinaryArithmExpr", <<cxt, jsp, jb, found>>)
      [] jsp.type \in {"jpiPlus", "jpiMinus"} -> Call("executeUnaryArithmExpr", <<cxt, jsp, jb, found>>)
      [] jsp.type = "jpiAnyArray" -> AnyArrayStep(cxt, jsp, jb, found)
      [] jsp.type = "jpiAnyKey" -> AnyKeyStep(cxt, jsp, jb, found, unwrap)
      [] jsp.type = "jpiIndexArray" -> IndexArrayStep(cxt, jsp, jb, found)
      [] jsp.type = "jpiAny" -> AnyStep(cxt, jsp, jb, found)
      [] jsp.type = "jpiKey" -> KeyStep(cxt, jsp, jb, found, unwrap)
      [] jsp.type = "jpiCurrent" -> Call("executeNextItem", <<cxt, jsp, cxt.current, found>>)
      [] jsp.type = "jpiRoot" -> RootStep(cxt, jsp, found)
      [] jsp.type = "jpiFilter" -> FilterStep(cxt, jsp, jb, found, unwrap)
      [] jsp.type = "jpiType" -> Call("executeNextItem", <<cxt, jsp, JStr(JsonbTypeName(jb)), found>>)
      [] jsp.type = "jpiSize" -> SizeStep(cxt, jsp, jb, found)
      [] jsp.type \in {"jpiAbs", "jpiFloor", "jpiCeiling"} ->
            Call("executeNumericItemMethod", <<cxt, jsp, jb, unwrap, found>>)
      [] jsp.type = "jpiDouble" -> DoubleStep(cxt, jsp, jb, found, unwrap)
      [] jsp.type \in {"jpiDatetime", "jpiDate", "jpiTime", "jpiTimeTz", "jpiTimestamp",
                      "jpiTimestampTz"} ->
            IF unwrap /\ JsonbType(jb) = "jbvArray"
            THEN Call("executeItemUnwrapTargetArray", <<cxt, jsp, jb, found, FALSE>>)
            ELSE Call("executeDateTimeMethod", <<cxt, jsp, jb, found>>)
      [] jsp.type = "jpiLast" -> LastStep(cxt, jsp, found)
      [] jsp.type = "jpiKeyValue" ->
            IF unwrap /\ JsonbType(jb) = "jbvArray"
            THEN Call("executeItemUnwrapTargetArray", <<cxt, jsp, jb, found, FALSE>>)
            ELSE Call("executeKeyValueMethod", <<cxt, jsp, jb, found>>)
      [] OTHER -> Raise("ERRCODE_INTERNAL_ERROR", cxt, found)

(***************************************************************************)
(* Interface to the executor.                                              *)
(***************************************************************************)
(* A JsonPath: the JSONPATH_LAX bit of its header and its first item. *)
JsonPath(lax, expr) == [lax |-> lax, expr |-> expr]

(* The context executeJsonPath() builds before it runs the path. *)
InitContext(path, vars_, json, throwErrors, useTz) ==
    [vars |-> vars_,
     root |-> json,
     current |-> json,
     baseObject |-> JsonBaseObjectInfo(NoContainer, 0),
     lastGeneratedObjectId |-> 1 + countVariablesFromJsonb(vars_),
     innermostArraySize |-> -1,
     laxMode |-> path.lax,
     ignoreStructuralErrors |-> path.lax,
     throwErrors |-> throwErrors,
     useTz |-> useTz]

(* executeJsonPath(): result is NoList when the caller passes no list. *)
executeJsonPath(path, vars_, json, throwErrors, result, useTz) ==
    LET cxt == InitContext(path, vars_, json, throwErrors, useTz)
    IN IF jspStrictAbsenceOfErrors(cxt) /\ ~result.given
       THEN LET res == Call("executeItem", <<cxt, path.expr, json, EmptyList>>)
            IN IF IsRaised(res) THEN [res EXCEPT !.found = result]
               ELSE IF jperIsError(res.res) THEN Res(res.res, res.cxt, result)
               ELSE Res(IF JsonValueListIsEmpty(res.found) THEN "jperNotFound" ELSE "jperOk",
                        res.cxt, result)
       ELSE Call("executeItem", <<cxt, path.expr, json, result>>)

(***************************************************************************)
(* SQL-callable functions: what the caller gets back.  "raised" is the     *)
(* error that reaches the caller, "isnull" a SQL NULL result.              *)
(***************************************************************************)
Returned(value) == [raised |-> NoError, isnull |-> FALSE, value |-> value]
ReturnedNull == [raised |-> NoError, isnull |-> TRUE, value |-> <<>>]
Thrown(code) == [raised |-> code, isnull |-> FALSE, value |-> <<>>]

jsonb_path_exists_internal(jb, jp, vars_, silent, tz) ==
    LET res == Call("executeJsonPath", <<jp, vars_, jb, ~silent, NoList, tz>>)
    IN IF IsRaised(res) THEN Thrown(res.raised)
       ELSE IF jperIsError(res.res) THEN ReturnedNull
       ELSE Returned(res.res = "jperOk")

(* jsonb_path_match_internal() raising on a wrong result also when silent. *)
jsonb_path_match_internal_AlwaysThrow(jb, jp, vars_, silent, tz) ==
    LET res == Call("executeJsonPath", <<jp, vars_, jb, ~silent, EmptyList, tz>>)
        found == res.found
    IN IF IsRaised(res) THEN Thrown(res.raised)
       ELSE IF JsonValueListLength(found) = 1
               /\ JsonValueListHead(found).type = "jbvBool"
       THEN Returned(JsonValueListHead(found).boolean)
       ELSE IF JsonValueListLength(found) = 1
               /\ JsonValueListHead(found).type = "jbvNull"
       THEN ReturnedNull
       ELSE Thrown("ERRCODE_SINGLETON_SQL_JSON_ITEM_REQUIRED")

jsonb_path_match_internal(jb, jp, vars_, silent, tz) ==
    LET res == Call("executeJsonPath", <<jp, vars_, jb, ~silent, EmptyList, tz>>)
        found == res.found
    IN IF IsRaised(res) THEN Thrown(res.raised)
       ELSE IF JsonValueListLength(found) = 1
               /\ JsonValueListHead(found).type = "jbvBool"
       THEN Returned(JsonValueListHead(found).boolean)
       ELSE IF JsonValueListLength(found) = 1
               /\ JsonValueListHead(found).type = "jbvNull"
       THEN ReturnedNull
       ELSE IF ~silent THEN Thrown("ERRCODE_SINGLETON_SQL_JSON_ITEM_REQUIRED")
       ELSE ReturnedNull

(* jsonb_path_query_internal(): the rows of the set-returning function. *)
jsonb_path_query_internal(jb, jp, vars_, silent, tz) ==
    LET res == Call("executeJsonPath", <<jp, vars_, jb, ~silent, EmptyList, tz>>)
    IN IF IsRaised(res) THEN Thrown(res.raised)
       ELSE Returned(JsonValueListGetList(res.found))

jsonb_path_query_array_internal(jb, jp, vars_, silent, tz) ==
    LET res == Call("executeJsonPath", <<jp, vars_, jb, ~silent, EmptyList, tz>>)
    IN IF IsRaised(res) THEN Thrown(res.raised)
       ELSE Returned(wrapItemsInArray(res.found))

jsonb_path_query_first_internal(jb, jp, vars_, silent, tz) ==
    LET res == Call("executeJsonPath", <<jp, vars_, jb, ~silent, EmptyList, tz>>)
    IN IF IsRaised(res) THEN Thrown(res.raised)
       ELSE IF JsonValueListLength(res.found) >= 1
       THEN Returned(JsonValueListHead(res.found))
       ELSE ReturnedNull

(***************************************************************************)
(* JSON_TABLE: plans, plan states and the fetching of rows.                *)
(***************************************************************************)
(* JsonTablePlan nodes, as far as the executor reads them. *)
JsonTablePathScan(path, errorOnError, colMin, colMax, child) ==
    [type |-> "JsonTablePathScan", path |-> path, errorOnError |-> errorOnError,
     colMin |-> colMin, colMax |-> colMax, child |-> child]
JsonTableSiblingJoin(lplan, rplan) ==
    [type |-> "JsonTableSiblingJoin", lplan |-> lplan, rplan |-> rplan]
NoPlan == [type |-> "NULL"]

(* JsonTablePlanRowSource *)
JsonTablePlanRowSource(value, isnull) == [value |-> value, isnull |-> isnull]

(* JsonTableInitPlan(): the plan state of a plan and of its child plans; *)
(* [plan |-> NoPlan] stands for a NULL nested pointer.                    *)
RECURSIVE JsonTableInitPlan(_)
JsonTableInitPlan(plan) ==
    IF plan.type = "JsonTablePathScan"
    THEN [plan |-> plan, found |-> EmptyList, iter |-> 0, current |-> JsonTablePlanRowSource(JNull, TRUE),
          ordinal |-> 0,
          nested |-> IF plan.child.type # "NULL" THEN JsonTableInitPlan(plan.child)
                     ELSE [plan |-> NoPlan]]
    ELSE [plan |-> plan, left |-> JsonTableInitPlan(plan.lplan),
          right |-> JsonTableInitPlan(plan.rplan)]

(* What the row functions hand back: the plan state they leave, whether   *)
(* there is a row, and the error thrown, if any.                          *)
RowRes(planstate, more) == [planstate |-> planstate, more |-> more, raised |-> NoError]

(* JsonTableResetRowPattern() keeping the items found before an error. *)
JsonTableResetRowPattern_KeepsFound(planstate, item) ==
    LET res == Call("executeJsonPath", <<planstate.plan.path, NoVars, item,
                                         planstate.plan.errorOnError, EmptyList, TRUE>>)
    IN IF IsRaised(res) THEN [RowRes(planstate, FALSE) EXCEPT !.raised = res.raised]
       ELSE RowRes([planstate EXCEPT !.found = res.found,
                                     !.iter = 0, !.current = JsonTablePlanRowSource(JNull, TRUE), !.ordinal = 0],
                   FALSE)

(* JsonTableResetRowPattern(): evaluate the path of a scan on item; the   *)
(* JSON_TABLE has no PASSING arguments.                                    *)
JsonTableResetRowPattern(planstate, item) ==
    LET res == Call("executeJsonPath", <<planstate.plan.path, NoVars, item,
                                         planstate.plan.errorOnError, EmptyList, TRUE>>)
    IN IF IsRaised(res) THEN [RowRes(planstate, FALSE) EXCEPT !.raised = res.raised]
       ELSE RowRes([planstate EXCEPT !.found = IF jperIsError(res.res) THEN EmptyList
                                               ELSE res.found,
                                     !.iter = 0, !.current = JsonTablePlanRowSource(JNull, TRUE), !.ordinal = 0],
                   FALSE)

(* JsonTablePlanNextRow() *)
JsonTablePlanNextRow(planstate) ==
    IF planstate.plan.type = "JsonTablePathScan"
    THEN Call("JsonTablePlanScanNextRow", <<planstate>>)
    ELSE IF planstate.plan.type = "JsonTableSiblingJoin"
    THEN Call("JsonTablePlanJoinNextRow", <<planstate>>)
    ELSE [RowRes(planstate, FALSE) EXCEPT !.raised = "ERRCODE_INTERNAL_ERROR"]

(* JsonTablePlanScanNextRow() putting the iterator back to the start of   *)
(* the row pattern at its end.                                             *)
ScanFetchNewRow_Rewinds(planstate) ==
    IF planstate.iter >= JsonValueListLength(planstate.found)
    THEN RowRes([planstate EXCEPT !.current = JsonTablePlanRowSource(JNull, TRUE), !.iter = 0], FALSE)
    ELSE LET row == [planstate EXCEPT
                        !.current = JsonTablePlanRowSource(planstate.found.items[planstate.iter + 1], FALSE),
                        !.iter = @ + 1,
                        !.ordinal = @ + 1]
         IN IF row.nested.plan.type = "NULL" THEN RowRes(row, TRUE)
            ELSE LET reset == Call("JsonTableResetNestedPlan", <<row.nested, row.current>>)
                 IN IF reset.raised # NoError THEN [RowRes(row, FALSE) EXCEPT !.raised = reset.raised]
                    ELSE LET n == Call("JsonTablePlanNextRow", <<reset.planstate>>)
                         IN IF n.raised # NoError THEN [RowRes(row, FALSE) EXCEPT !.raised = n.raised]
                            ELSE RowRes([row EXCEPT !.nested = n.planstate], TRUE)

(* JsonTablePlanScanNextRow() leaving the last row active at the end of   *)
(* the row pattern.                                                        *)
ScanFetchNewRow_KeepsCurrent(planstate) ==
    IF planstate.iter >= JsonValueListLength(planstate.found)
    THEN RowRes(planstate, FALSE)
    ELSE LET row == [planstate EXCEPT
                        !.current = JsonTablePlanRowSource(planstate.found.items[planstate.iter + 1], FALSE),
                        !.iter = @ + 1,
                        !.ordinal = @ + 1]
         IN IF row.nested.plan.type = "NULL" THEN RowRes(row, TRUE)
            ELSE LET reset == Call("JsonTableResetNestedPlan", <<row.nested, row.current>>)
                 IN IF reset.raised # NoError THEN [RowRes(row, FALSE) EXCEPT !.raised = reset.raised]
                    ELSE LET n == Call("JsonTablePlanNextRow", <<reset.planstate>>)
                         IN IF n.raised # NoError THEN [RowRes(row, FALSE) EXCEPT !.raised = n.raised]
                            ELSE RowRes([row EXCEPT !.nested = n.planstate], TRUE)

(* JsonTablePlanScanNextRow() not counting the row. *)
ScanFetchNewRow_OrdinalKept(planstate) ==
    IF planstate.iter >= JsonValueListLength(planstate.found)
    THEN RowRes([planstate EXCEPT !.current = JsonTablePlanRowSource(JNull, TRUE)], FALSE)
    ELSE LET row == [planstate EXCEPT
                        !.current = JsonTablePlanRowSource(planstate.found.items[planstate.iter + 1], FALSE),
                        !.iter = @ + 1]
         IN IF row.nested.plan.type = "NULL" THEN RowRes(row, TRUE)
            ELSE LET reset == Call("JsonTableResetNestedPlan", <<row.nested, row.current>>)
                 IN IF reset.raised # NoError THEN [RowRes(row, FALSE) EXCEPT !.raised = reset.raised]
                    ELSE LET n == Call("JsonTablePlanNextRow", <<reset.planstate>>)
                         IN IF n.raised # NoError THEN [RowRes(row, FALSE) EXCEPT !.raised = n.raised]
                            ELSE RowRes([row EXCEPT !.nested = n.planstate], TRUE)

(* The second half of JsonTablePlanScanNextRow(): take the next item of   *)
(* the row pattern as the active row and restart the nested plan on it.   *)
(* JsonbValueToJsonb() copies the item into a jsonb of its own; the row   *)
(* patterns read no container address, so the copy has the item's value.  *)
ScanFetchNewRow(planstate) ==
    IF planstate.iter >= JsonValueListLength(planstate.found)
    THEN RowRes([planstate EXCEPT !.current = JsonTablePlanRowSource(JNull, TRUE)], FALSE)
    ELSE LET row == [planstate EXCEPT
                        !.current = JsonTablePlanRowSource(planstate.found.items[planstate.iter + 1], FALSE),
                        !.iter = @ + 1,
                        !.ordinal = @ + 1]
         IN IF row.nested.plan.type = "NULL" THEN RowRes(row, TRUE)
            ELSE LET reset == Call("JsonTableResetNestedPlan", <<row.nested, row.current>>)
                 IN IF reset.raised # NoError THEN [RowRes(row, FALSE) EXCEPT !.raised = reset.raised]
                    ELSE LET n == Call("JsonTablePlanNextRow", <<reset.planstate>>)
                         IN IF n.raised # NoError THEN [RowRes(row, FALSE) EXCEPT !.raised = n.raised]
                            ELSE RowRes([row EXCEPT !.nested = n.planstate], TRUE)

(* JsonTablePlanScanNextRow(): a row of the nested plan for the active    *)
(* row if there is one, otherwise a new active row.                       *)
JsonTablePlanScanNextRow(planstate) ==
    IF ~planstate.current.isnull /\ planstate.nested.plan.type # "NULL"
    THEN LET n == Call("JsonTablePlanNextRow", <<planstate.nested>>)
         IN IF n.raised # NoError THEN [RowRes(planstate, FALSE) EXCEPT !.raised = n.raised]
            ELSE IF n.more THEN RowRes([planstate EXCEPT !.nested = n.planstate], TRUE)
            ELSE Call("ScanFetchNewRow", <<[planstate EXCEPT !.nested = n.planstate]>>)
    ELSE Call("ScanFetchNewRow", <<planstate>>)

(* JsonTableResetNestedPlan() leaving the row pattern of the last parent  *)
(* row in place.                                                           *)
JsonTableResetNestedPlan_NoReset(planstate, parent) == RowRes(planstate, FALSE)

(* JsonTableResetNestedPlan(): parent is the active row of the parent     *)
(* scan, planstate->parent->current.                                       *)
JsonTableResetNestedPlan(planstate, parent) ==
    IF planstate.plan.type = "JsonTablePathScan"
    THEN (IF ~parent.isnull THEN Call("JsonTableResetRowPattern", <<planstate, parent.value>>)
          ELSE RowRes(planstate, FALSE))
    ELSE LET l == Call("JsonTableResetNestedPlan", <<planstate.left, parent>>)
         IN IF l.raised # NoError THEN [RowRes(planstate, FALSE) EXCEPT !.raised = l.raised]
            ELSE LET r == Call("JsonTableResetNestedPlan", <<planstate.right, parent>>)
                 IN IF r.raised # NoError THEN [RowRes(planstate, FALSE) EXCEPT !.raised = r.raised]
                    ELSE RowRes([planstate EXCEPT !.left = l.planstate, !.right = r.planstate],
                                FALSE)

(* JsonTablePlanJoinNextRow() advancing both siblings in every call. *)
JsonTablePlanJoinNextRow_BothSiblings(planstate) ==
    LET l == Call("JsonTablePlanNextRow", <<planstate.left>>)
    IN IF l.raised # NoError THEN [RowRes(planstate, FALSE) EXCEPT !.raised = l.raised]
       ELSE LET r == Call("JsonTablePlanNextRow", <<planstate.right>>)
            IN IF r.raised # NoError THEN [RowRes(planstate, FALSE) EXCEPT !.raised = r.raised]
               ELSE RowRes([planstate EXCEPT !.left = l.planstate, !.right = r.planstate],
                           l.more \/ r.more)

(* JsonTablePlanJoinNextRow() asking the right sibling first. *)
JsonTablePlanJoinNextRow_RightFirst(planstate) ==
    LET r == Call("JsonTablePlanNextRow", <<planstate.right>>)
    IN IF r.raised # NoError THEN [RowRes(planstate, FALSE) EXCEPT !.raised = r.raised]
       ELSE IF r.more THEN RowRes([planstate EXCEPT !.right = r.planstate], TRUE)
       ELSE LET l == Call("JsonTablePlanNextRow", <<planstate.left>>)
            IN IF l.raised # NoError THEN [RowRes(planstate, FALSE) EXCEPT !.raised = l.raised]
               ELSE RowRes([planstate EXCEPT !.left = l.planstate, !.right = r.planstate],
                           l.more)

(* JsonTablePlanJoinNextRow(): the rows of the left sibling, then those   *)
(* of the right one.                                                       *)
JsonTablePlanJoinNextRow(planstate) ==
    LET l == Call("JsonTablePlanNextRow", <<planstate.left>>)
    IN IF l.raised # NoError THEN [RowRes(planstate, FALSE) EXCEPT !.raised = l.raised]
       ELSE IF l.more THEN RowRes([planstate EXCEPT !.left = l.planstate], TRUE)
       ELSE LET r == Call("JsonTablePlanNextRow", <<planstate.right>>)
            IN IF r.raised # NoError THEN [RowRes(planstate, FALSE) EXCEPT !.raised = r.raised]
               ELSE RowRes([planstate EXCEPT !.left = l.planstate, !.right = r.planstate],
                           r.more)

(* cxt->colplanstates[colnum]: the state of the scan that owns the column. *)
RECURSIVE ColPlanState(_, _)
ColPlanState(planstate, colnum) ==
    IF planstate.plan.type = "NULL" THEN [plan |-> NoPlan]
    ELSE IF planstate.plan.type = "JsonTableSiblingJoin"
    THEN LET l == ColPlanState(planstate.left, colnum)
         IN IF l.plan.type # "NULL" THEN l ELSE ColPlanState(planstate.right, colnum)
    ELSE IF planstate.plan.colMin <= colnum /\ colnum <= planstate.plan.colMax THEN planstate
    ELSE ColPlanState(planstate.nested, colnum)

(* JsonTableGetValue(): the value of column colnum for the current row,   *)
(* a Datum: a jsonb, Int32GetDatum(ordinal), or (Datum) 0 with *isnull.   *)
(* A column with an expression reads the row pattern value (its JsonExpr  *)
(* belongs to the expression evaluator); one without is an ORDINAL column.*)
JsonTableGetValue(cxt, colnum) ==
    LET planstate == ColPlanState(cxt.rootplanstate, colnum)
        current == planstate.current
    IN IF current.isnull THEN [ReturnedNull EXCEPT !.value = [type |-> "NULL"]]
       ELSE IF cxt.colvalexprs[colnum + 1] # "NULL" THEN Returned(current.value)
       ELSE Returned([type |-> "int4", int4 |-> planstate.ordinal])

(* The calls the functions of the executor make to one another. *)
Call(fn, a) ==
    CASE fn = "executeItem" ->
            executeItem(a[1], a[2], a[3], a[4])
      [] fn = "executeItemOptUnwrapTarget" ->
            executeItemOptUnwrapTarget(a[1], a[2], a[3], a[4], a[5])
      [] fn = "executeItemUnwrapTargetArray" ->
            executeItemUnwrapTargetArray(a[1], a[2], a[3], a[4], a[5])
      [] fn = "executeNextItem" ->
            executeNextItem(a[1], a[2], a[3], a[4])
      [] fn = "executeItemOptUnwrapResult" ->
            executeItemOptUnwrapResult(a[1], a[2], a[3], a[4], a[5])
      [] fn = "UnwrapResultLoop" ->
            UnwrapResultLoop(a[1], a[2], a[3], a[4])
      [] fn = "executeItemOptUnwrapResultNoThrow" ->
            executeItemOptUnwrapResultNoThrow(a[1], a[2], a[3], a[4], a[5])
      [] fn = "executeBoolItem" ->
            executeBoolItem(a[1], a[2], a[3], a[4])
      [] fn = "executeNestedBoolItem" ->
            executeNestedBoolItem(a[1], a[2], a[3])
      [] fn = "executeAnyItem" ->
            executeAnyItem(a[1], a[2], a[3], a[4], a[5], a[6], a[7], a[8], a[9])
      [] fn = "executeAnyItemLoop" ->
            executeAnyItemLoop(a[1], a[2], a[3], a[4], a[5], a[6], a[7], a[8], a[9], a[10], a[11])
      [] fn = "executePredicate" ->
            executePredicate(a[1], a[2], a[3], a[4], a[5], a[6])
      [] fn = "executeBinaryArithmExpr" ->
            executeBinaryArithmExpr(a[1], a[2], a[3], a[4])
      [] fn = "executeUnaryArithmExpr" ->
            executeUnaryArithmExpr(a[1], a[2], a[3], a[4])
      [] fn = "UnaryArithmLoop" ->
            UnaryArithmLoop(a[1], a[2], a[3], a[4], a[5], a[6])
      [] fn = "executeNumericItemMethod" ->
            executeNumericItemMethod(a[1], a[2], a[3], a[4], a[5])
      [] fn = "executeDateTimeMethod" ->
            executeDateTimeMethod(a[1], a[2], a[3], a[4])
      [] fn = "executeKeyValueMethod" ->
            executeKeyValueMethod(a[1], a[2], a[3], a[4])
      [] fn = "KeyValueLoop" ->
            KeyValueLoop(a[1], a[2], a[3], a[4], a[5], a[6], a[7])
      [] fn = "appendBoolResult" ->
            appendBoolResult(a[1], a[2], a[3], a[4])
      [] fn = "getArrayIndex" ->
            getArrayIndex(a[1], a[2], a[3])
      [] fn = "IndexArraySubscripts" ->
            IndexArraySubscripts(a[1], a[2], a[3], a[4], a[5], a[6], a[7])
      [] fn = "IndexArrayRange" ->
            IndexArrayRange(a[1], a[2], a[3], a[4], a[5], a[6], a[7], a[8])
      [] fn = "PredicateLoop" ->
            PredicateLoop(a[1], a[2], a[3], a[4], a[5], a[6], a[7], a[8], a[9])
      [] fn = "executeJsonPath" ->
            executeJsonPath(a[1], a[2], a[3], a[4], a[5], a[6])
      [] fn = "jsonb_path_exists_internal" ->
            jsonb_path_exists_internal(a[1], a[2], a[3], a[4], a[5])
      [] fn = "jsonb_path_match_internal" ->
            jsonb_path_match_internal(a[1], a[2], a[3], a[4], a[5])
      [] fn = "jsonb_path_query_internal" ->
            jsonb_path_query_internal(a[1], a[2], a[3], a[4], a[5])
      [] fn = "jsonb_path_query_array_internal" ->
            jsonb_path_query_array_internal(a[1], a[2], a[3], a[4], a[5])
      [] fn = "jsonb_path_query_first_internal" ->
            jsonb_path_query_first_internal(a[1], a[2], a[3], a[4], a[5])
      [] fn = "JsonTableResetRowPattern" ->
            JsonTableResetRowPattern(a[1], a[2])
      [] fn = "JsonTablePlanNextRow" ->
            JsonTablePlanNextRow(a[1])
      [] fn = "JsonTablePlanScanNextRow" ->
            JsonTablePlanScanNextRow(a[1])
      [] fn = "ScanFetchNewRow" ->
            ScanFetchNewRow(a[1])
      [] fn = "JsonTableResetNestedPlan" ->
            JsonTableResetNestedPlan(a[1], a[2])
      [] fn = "JsonTablePlanJoinNextRow" ->
            JsonTablePlanJoinNextRow(a[1])

(***************************************************************************)
(* Bounds and inputs.                                                      *)
(***************************************************************************)
MaxArrayLen == 2
MaxSeqLen == 2

KeyA == <<97>>
KeyB == <<98>>
KeyL == <<108>>
KeyR == <<114>>
StrX == <<120>>
StrXY == <<120, 121>>
Str1 == <<49>>

SeqsUpTo(S, n) == UNION {[1..k -> S] : k \in 0..n}

Scalars == {JNull, JBool(TRUE), JNum(1), JNum(2), JStr(StrX)}
ArrayElems == {JNum(1), JNum(2), JStr(StrX)}
Arrays == {JArr(elems) : elems \in SeqsUpTo(ArrayElems, MaxArrayLen)}
NestedDocs ==
    {JArr(<<JArr(<<JNum(1), JNum(2)>>), JNum(2)>>),
     JArr(<<JObj(<<JPair(KeyA, JNum(1))>>), JObj(<<JPair(KeyA, JStr(StrX))>>)>>),
     JObj(<<JPair(KeyA, JNum(1)), JPair(KeyB, JNum(2))>>),
     JObj(<<JPair(KeyA, JObj(<<JPair(KeyA, JNum(2))>>))>>),
     JObj(<<JPair(KeyA, JStr(Str1)), JPair(KeyB, JArr(<<JNum(1), JStr(StrX)>>))>>),
     JObj(<<>>)}
SmallArrays ==
    {JArr(<<>>), JArr(<<JNum(1)>>), JArr(<<JNum(1), JNum(2)>>), JArr(<<JNum(1), JStr(StrX)>>),
     JArr(<<JBool(TRUE)>>), JArr(<<JNull, JNum(1)>>)}
Objects == {JObj(<<JPair(KeyA, v)>>) : v \in Scalars \cup SmallArrays}
DocArrays == {JArr(elems) : elems \in SeqsUpTo({JNum(1), JStr(StrX)}, MaxArrayLen)}
Docs == Scalars \cup DocArrays \cup SmallArrays \cup Objects \cup NestedDocs

Root(next) == jpiRoot(next)
Cur(next) == jpiCurrent(next)
Num(n) == jpiNumeric(n, NoItem)
Cmp(op, l, r) == jpiBinary(op, l, r, NoItem)
Double == jpiMethod("jpiDouble", NoItem)
Index(i, next) == jpiIndexArray(<<Subscript(Num(i))>>, next)

(* The bodies of the paths the calls are made with. *)
PathExprs ==
    {Root(NoItem),
     Root(jpiKey(KeyA, NoItem)),
     Root(jpiKey(KeyA, jpiKey(KeyA, NoItem))),
     Root(jpiAnyArray(NoItem)),
     Root(jpiAnyKey(NoItem)),
     Root(Index(0, NoItem)),
     Root(Index(1, NoItem)),
     Root(jpiIndexArray(<<SubscriptRange(Num(0), jpiLast(NoItem))>>, NoItem)),
     Root(jpiAny(0, PG_UINT32_MAX, NoItem)),
     Root(jpiAny(1, 1, NoItem)),
     Root(Double),
     Root(jpiAnyArray(Double)),
     Root(jpiKey(KeyA, Double)),
     Root(jpiAny(0, PG_UINT32_MAX, Double)),
     Root(jpiAny(0, 1, jpiKey(KeyA, NoItem))),
     Root(jpiMethod("jpiSize", NoItem)),
     Root(jpiMethod("jpiType", NoItem)),
     Root(jpiAnyArray(jpiMethod("jpiAbs", NoItem))),
     Root(jpiAnyArray(jpiFilter(Cmp("jpiGreater", Cur(NoItem), Num(1)), NoItem))),
     Root(jpiFilter(Cmp("jpiEqual", Cur(jpiKey(KeyA, NoItem)), Num(1)), NoItem)),
     Root(jpiFilter(jpiBinary("jpiOr", Cmp("jpiEqual", Cur(jpiKey(KeyA, NoItem)), Num(1)),
                              Cmp("jpiEqual", Cur(jpiKey(KeyB, NoItem)), Num(2)), NoItem),
                    NoItem)),
     jpiBinary("jpiAdd", Root(jpiKey(KeyA, NoItem)), Num(1), NoItem),
     jpiBinary("jpiMod", Num(1), Root(Index(0, NoItem)), NoItem),
     jpiUnary("jpiMinus", Root(jpiAnyArray(NoItem)), NoItem),
     Cmp("jpiEqual", Root(jpiAnyArray(NoItem)), Num(1)),
     Cmp("jpiLess", Root(jpiKey(KeyA, NoItem)), Num(2)),
     jpiUnary("jpiExists", Root(jpiKey(KeyA, NoItem)), NoItem),
     jpiUnary("jpiExists", Root(jpiAnyArray(Double)), NoItem),
     jpiBool(TRUE, NoItem),
     jpiNull(NoItem),
     jpiVariable(KeyA, NoItem)}

Paths == {JsonPath(lax, expr) : lax \in BOOLEAN, expr \in PathExprs}

(* Predicates for direct calls of executeBoolItem(). *)
Not(p) == jpiUnary("jpiNot", p, NoItem)
IsUnknown(p) == jpiUnary("jpiIsUnknown", p, NoItem)
And(p, q) == jpiBinary("jpiAnd", p, q, NoItem)
Or(p, q) == jpiBinary("jpiOr", p, q, NoItem)
Exists(path) == jpiUnary("jpiExists", path, NoItem)

BasePreds ==
    {Cmp("jpiEqual", Cur(NoItem), Num(1)),
     Cmp("jpiLess", Cur(NoItem), Num(2)),
     Cmp("jpiEqual", Cur(jpiKey(KeyA, NoItem)), Num(1)),
     Exists(Cur(jpiKey(KeyA, NoItem)))}
OperandPreds == BasePreds \cup {Not(p) : p \in BasePreds} \cup {IsUnknown(p) : p \in BasePreds}
KleenePreds ==
    {And(p, q) : p, q \in OperandPreds} \cup {Or(p, q) : p, q \in OperandPreds}
        \cup {Not(p) : p \in OperandPreds} \cup {IsUnknown(p) : p \in OperandPreds}
KleeneDocs ==
    {JNum(1), JNum(2), JStr(StrX), JObj(<<JPair(KeyA, JNum(1))>>),
     JObj(<<JPair(KeyA, JStr(StrX))>>)}

(* Sub-paths used as predicate operands; some of them can fail. *)
OperandPaths ==
    {Cur(NoItem),
     Cur(Double),
     Cur(jpiAnyArray(Double)),
     Cur(jpiKey(KeyA, NoItem)),
     Cur(jpiKey(KeyA, Double)),
     Cur(Index(1, NoItem)),
     Cur(jpiAny(0, PG_UINT32_MAX, Double)),
     jpiBinary("jpiAdd", Cur(NoItem), Num(1), NoItem),
     jpiUnary("jpiMinus", Cur(jpiAnyArray(NoItem)), NoItem)}
OperandFamilyPreds ==
    UNION {{Cmp("jpiEqual", o, Num(1)),
            Cmp("jpiLess", Num(1), o),
            jpiBinary("jpiStartsWith", o, jpiString(StrX, NoItem), NoItem),
            jpiLikeRegex(o, StrX, NoItem),
            Exists(o)} : o \in OperandPaths}
OperandFamily ==
    OperandFamilyPreds \cup {Not(p) : p \in OperandFamilyPreds}
        \cup {And(p, Cmp("jpiEqual", Num(1), Num(1))) : p \in OperandFamilyPreds}
        \cup {Or(Cmp("jpiEqual", Num(1), Num(2)), p) : p \in OperandFamilyPreds}
OperandDocs == Scalars \cup SmallArrays \cup NestedDocs

(* Comparisons of the items of two sequences: the document holds the two   *)
(* sequences under the keys l and r.                                       *)
CmpItems == {JNum(1), JNum(2), JStr(StrX)}
DateD1 == <<68, 49>>
DateD2 == <<68, 50>>
TimestampTzU1 == <<85, 49>>
DatetimeStrings == {JStr(DateD1), JStr(DateD2), JStr(TimestampTzU1)}
LeftSeqPath == Cur(jpiKey(KeyL, jpiAnyArray(NoItem)))
RightSeqPath == Cur(jpiKey(KeyR, jpiAnyArray(NoItem)))
LeftDatetimePath == Cur(jpiKey(KeyL, jpiAnyArray(jpiMethod("jpiDatetime", NoItem))))
RightDatetimePath == Cur(jpiKey(KeyR, jpiAnyArray(jpiMethod("jpiDatetime", NoItem))))
SeqDoc(L, R) == JObj(<<JPair(KeyL, JArr(L)), JPair(KeyR, JArr(R))>>)
SeqPreds == {Cmp(op, LeftSeqPath, RightSeqPath) : op \in ComparisonOps}
DatetimePreds == {Cmp(op, LeftDatetimePath, RightDatetimePath) : op \in {"jpiEqual", "jpiLess"}}
SeqDocs == {SeqDoc(L, R) : L, R \in SeqsUpTo(CmpItems, MaxSeqLen)}
DatetimeDocs == {SeqDoc(L, R) : L, R \in SeqsUpTo(DatetimeStrings, MaxSeqLen)}

(* The (predicate, item, useTz, throwErrors) cases of the direct *)
(* executeBoolItem() calls.                                     *)
(* AND and OR with a right operand that throws when it is evaluated: it   *)
(* reads a variable no call binds.                                        *)
ShortCircuitLefts ==
    {Cmp("jpiEqual", Cur(NoItem), Num(1)), Cmp("jpiEqual", Cur(Double), Num(1))}
ShortCircuitPreds ==
    {jpiBinary(op, l, Cmp("jpiEqual", jpiVariable(KeyB, NoItem), Num(1)), NoItem) :
        op \in {"jpiAnd", "jpiOr"}, l \in ShortCircuitLefts}

BoolCases ==
    (KleenePreds \X KleeneDocs \X {FALSE} \X {FALSE})
        \cup (ShortCircuitPreds \X {JNum(1), JNum(2), JStr(StrX)} \X {FALSE} \X BOOLEAN)
        \cup (OperandFamily \X OperandDocs \X {FALSE} \X BOOLEAN)
        \cup (SeqPreds \X SeqDocs \X {FALSE} \X {FALSE})
        \cup (DatetimePreds \X DatetimeDocs \X BOOLEAN \X {FALSE})

(* Items compareItems() is called with. *)
(* Two values of each of the five datetime kinds. *)
DatetimeTypes == {"DATEOID", "TIMEOID", "TIMETZOID", "TIMESTAMPOID", "TIMESTAMPTZOID"}
DatetimeValues == {JDatetime(t, v) : t \in DatetimeTypes, v \in {1, 2}}

CompareValues ==
    {JNull, JBool(TRUE), JBool(FALSE), JNum(1), JNum(2), JStr(StrX), JStr(StrXY),
     JArr(<<>>), JArr(<<JNum(1)>>), JObj(<<>>), JObj(<<JPair(KeyA, JNum(1))>>),
     JDatetime("DATEOID", 1), JDatetime("TIMEOID", 2), JDatetime("TIMESTAMPTZOID", 1)}
        \cup DatetimeValues

(* Filter steps executeItemOptUnwrapTarget() is called with. *)
FilterPreds ==
    {Cmp("jpiGreater", Cur(NoItem), Num(1)),
     Cmp("jpiEqual", Cur(NoItem), Num(1)),
     Cmp("jpiEqual", Cur(jpiKey(KeyA, NoItem)), Num(1)),
     Cmp("jpiEqual", Cur(Double), Num(1)),
     Exists(Cur(jpiFilter(Cmp("jpiGreater", Cur(NoItem), Num(1)), NoItem))),
     And(Exists(Cur(jpiFilter(Cmp("jpiEqual", Cur(NoItem), Num(1)), NoItem))),
         Cmp("jpiLess", Cur(NoItem), Num(2)))}
FilterNexts == {NoItem, jpiMethod("jpiType", NoItem), jpiKey(KeyA, NoItem)}
FilterInputs == Scalars \cup Arrays \cup NestedDocs
FilterLists == {NoList, EmptyList, JsonValueListAppend(EmptyList, JNum(7))}

VarsSet == {NoVars, JObj(<<JPair(KeyA, JNum(1))>>)}

(* Path bodies that evaluate a variable no call binds (b), with the items   *)
(* they are evaluated on: the variable is the first item evaluated, the     *)
(* last step, a predicate operand, or inside a filter on a non-empty input. *)
UnboundVar(next) == jpiVariable(KeyB, next)
FatalVarExprs ==
    {UnboundVar(NoItem),
     UnboundVar(jpiKey(KeyA, NoItem)),
     Cmp("jpiEqual", UnboundVar(NoItem), Num(1)),
     Cmp("jpiEqual", Num(1), UnboundVar(jpiKey(KeyA, NoItem))),
     Exists(UnboundVar(NoItem)),
     Not(Exists(UnboundVar(NoItem))),
     Root(jpiFilter(Cmp("jpiEqual", UnboundVar(NoItem), Cur(NoItem)), NoItem))}
FatalVarDocs == {JNum(1), JArr(<<JNum(1), JStr(StrX)>>), JObj(<<JPair(KeyA, JNum(1))>>)}

(* Path bodies that cast or compare datetimes across the time zone line, on *)
(* the document {"l": "D1", "r": "U1"} (a date and a timestamptz).          *)
FatalTzExprs ==
    {Root(jpiKey(KeyL, jpiMethod("jpiTimestampTz", NoItem))),
     Root(jpiKey(KeyR, jpiMethod("jpiDate", jpiMethod("jpiType", NoItem)))),
     Exists(Root(jpiKey(KeyL, jpiMethod("jpiTimestampTz", NoItem)))),
     Cmp("jpiEqual", Root(jpiKey(KeyR, jpiMethod("jpiTimestamp", NoItem))), Num(1)),
     Cmp("jpiLess", Root(jpiKey(KeyL, jpiMethod("jpiDatetime", NoItem))),
                    Root(jpiKey(KeyR, jpiMethod("jpiDatetime", NoItem)))),
     Root(jpiFilter(Cmp("jpiNotEqual", Cur(jpiKey(KeyR, jpiMethod("jpiDatetime", NoItem))),
                                       Cur(jpiKey(KeyL, jpiMethod("jpiDatetime", NoItem)))),
                    NoItem))}
FatalTzDoc == JObj(<<JPair(KeyL, JStr(DateD1)), JPair(KeyR, JStr(TimestampTzU1))>>)

(* The (document, path, variables, useTz) cases of the direct calls of *)
(* executeJsonPath().                                                  *)
FatalCases ==
    ({<<jb, JsonPath(lax, e)>> : jb \in FatalVarDocs, lax \in BOOLEAN, e \in FatalVarExprs}
        \X VarsSet \X {FALSE})
    \cup ({<<FatalTzDoc, JsonPath(lax, e)>> : lax \in BOOLEAN, e \in FatalTzExprs}
            \X {NoVars} \X BOOLEAN)
(* Documents for .keyvalue(): containers with their addresses. *)
KvObj2(addr) == JObjAt(addr, <<JPair(KeyA, JNum(1)), JPair(KeyB, JNum(2))>>)
KvDocs ==
    {KvObj2(0),
     JObjAt(0, <<JPair(KeyA, KvObj2(1)), JPair(KeyB, KvObj2(2))>>),
     JArrAt(0, <<KvObj2(1), KvObj2(2)>>),
     JObjAt(0, <<JPair(KeyA, JObjAt(1, <<JPair(KeyA, KvObj2(2))>>))>>),
     JObjAt(0, <<>>),
     JNum(1)}
KvVars == JObjAt(0, <<JPair(KeyB, KvObj2(1))>>)
KeyValue(next) == jpiMethod("jpiKeyValue", next)

(* The path bodies $ t, $.* t, $[*] t, $[0,0] t, $.keyvalue() t,           *)
(* $.keyvalue().value t and $b t, for a tail t.                            *)
KvShapes == 1..7
KvBody(k, t) ==
    CASE k = 1 -> Root(t)
      [] k = 2 -> Root(jpiAnyKey(t))
      [] k = 3 -> Root(jpiAnyArray(t))
      [] k = 4 -> Root(jpiIndexArray(<<Subscript(Num(0)), Subscript(Num(0))>>, t))
      [] k = 5 -> Root(KeyValue(t))
      [] k = 6 -> Root(KeyValue(jpiKey(KeyValueKeys.valstr, t)))
      [] k = 7 -> jpiVariable(KeyB, t)
KvPairExprs == {KvBody(k, KeyValue(NoItem)) : k \in KvShapes}

(* $.a.keyvalue() ? (@.id == $b.keyvalue().id) *)
KvCrossExpr ==
    Root(jpiKey(KeyA, KeyValue(jpiFilter(
        Cmp("jpiEqual", Cur(jpiKey(KeyValueKeys.idstr, NoItem)),
                        jpiVariable(KeyB, KeyValue(jpiKey(KeyValueKeys.idstr, NoItem)))),
        NoItem))))

KeyValueCases ==
    {<<jb, JsonPath(lax, e)>> : jb \in KvDocs, lax \in BOOLEAN, e \in KvPairExprs \cup {KvCrossExpr}}
        \X {NoVars, KvVars} \X {FALSE}

(* Path bodies in which a predicate or a level-0 .** absorbs the strict   *)
(* structural error of the step in front of a step that fails:            *)
(* $ ? (@.type() == "string").double(), $.a == $b and $.**{0}.a.double(). *)
StringStr == <<115, 116, 114, 105, 110, 103>>
AbsorbingExprs ==
    {Root(jpiFilter(Cmp("jpiEqual", Cur(jpiMethod("jpiType", NoItem)), jpiString(StringStr, NoItem)),
                    Double)),
     Cmp("jpiEqual", Root(jpiKey(KeyA, NoItem)), jpiVariable(KeyB, NoItem)),
     Root(jpiAny(0, 0, jpiKey(KeyA, Double)))}
AbsorbingDocs == {JNum(1), JArr(<<JStr(StrX)>>), JArr(<<JObj(<<JPair(KeyA, JStr(StrX))>>)>>)}
AbsorbingCases ==
    {<<jb, JsonPath(lax, e)>> : jb \in AbsorbingDocs, lax \in BOOLEAN, e \in AbsorbingExprs}
        \X {NoVars} \X {FALSE}

(* $[0 ? (exists(@[0])), last] and $[0, last]: a subscript that runs an   *)
(* index accessor of its own in front of a subscript with last.           *)
LastExprs ==
    {Root(jpiIndexArray(<<Subscript(jpiNumeric(0, jpiFilter(Exists(Cur(Index(0, NoItem))), NoItem))),
                          Subscript(jpiLast(NoItem))>>, NoItem)),
     Root(jpiIndexArray(<<Subscript(Num(0)), Subscript(jpiLast(NoItem))>>, NoItem))}
LastDocs == {JArr(<<JNum(1)>>), JArr(<<JNum(1), JNum(2), JNum(3)>>)}
LastCases ==
    {<<jb, JsonPath(lax, e)>> : jb \in LastDocs, lax \in BOOLEAN, e \in LastExprs}
        \X {NoVars} \X {FALSE}

(* +$ and -$, alone and in front of .abs(). *)
UnaryExprs ==
    {jpiUnary(op, Root(NoItem), next) :
        op \in {"jpiPlus", "jpiMinus"}, next \in {NoItem, jpiMethod("jpiAbs", NoItem)}}
UnaryDocs ==
    {JNum(1), JStr(StrX), JArr(<<>>), JArr(<<JNum(1), JNum(-2)>>), JArr(<<JNum(1), JStr(StrX)>>),
     JArr(<<JStr(StrX), JNum(1)>>), JArr(<<JStr(StrX), JNull>>)}
UnaryCases ==
    {<<jb, JsonPath(lax, e)>> : jb \in UnaryDocs, lax \in BOOLEAN, e \in UnaryExprs}
        \X {NoVars} \X {FALSE}

(* $.**{first to last} with small bounds, alone and in front of .a. *)
DescentExprs ==
    {Root(jpiAny(first, last, next)) :
        first \in 0..2, last \in 0..2, next \in {NoItem, jpiKey(KeyA, NoItem)}}
DescentDocs ==
    {JNum(1),
     JObj(<<JPair(KeyA, JNum(1))>>),
     JArr(<<JArr(<<JArr(<<JNum(1)>>)>>), JObj(<<JPair(KeyA, JArr(<<JNum(2)>>))>>)>>),
     JObj(<<JPair(KeyA, JArr(<<JObj(<<JPair(KeyA, JNum(1))>>), JNum(2)>>)),
            JPair(KeyB, JObj(<<JPair(KeyA, JObj(<<JPair(KeyA, JNum(3))>>))>>))>>)}
DescentCases ==
    {<<jb, JsonPath(lax, e)>> : jb \in DescentDocs, lax \in BOOLEAN, e \in DescentExprs}
        \X {NoVars} \X {FALSE}

PathCases ==
    ({<<jb, jp>> : jb \in Docs, jp \in Paths} \X VarsSet \X {FALSE})
        \cup FatalCases \cup KeyValueCases \cup AbsorbingCases \cup LastCases \cup UnaryCases
        \cup DescentCases

(* Member accessor steps executeItemOptUnwrapTarget() is called with. *)
ObjA(v) == JObj(<<JPair(KeyA, v)>>)
KeyInputs ==
    {JNum(1), JStr(StrX), JNull, JObj(<<>>), ObjA(JNum(1)), JObj(<<JPair(KeyB, JNum(2))>>),
     JObj(<<JPair(KeyA, JNum(1)), JPair(KeyB, JNum(2))>>), ObjA(JArr(<<JNum(1)>>)),
     JArr(<<>>), JArr(<<JNum(1)>>), JArr(<<JNum(1), JNum(2)>>),
     JArr(<<ObjA(JNum(1))>>), JArr(<<ObjA(JNum(1)), ObjA(JNum(2))>>),
     JArr(<<ObjA(JNum(2)), JNum(1), ObjA(JNum(1))>>),
     JArr(<<JObj(<<JPair(KeyB, JNum(1))>>), ObjA(JStr(StrX))>>),
     JArr(<<JArr(<<ObjA(JNum(1))>>)>>),
     JArr(<<JArr(<<ObjA(JNum(1))>>), ObjA(JNum(2))>>)}
(* Subscript steps executeItemOptUnwrapTarget() is called with: one single *)
(* index or range with bounds in -1..3, or two subscripts.                *)
IndexBounds == {-1, 0, 1, 2, 3}
IndexSteps ==
    {<<Subscript(Num(f))>> : f \in IndexBounds}
        \cup {<<SubscriptRange(Num(f), Num(t))>> : f, t \in IndexBounds}
        \cup {<<Subscript(Num(0)), Subscript(Num(2))>>,
              <<SubscriptRange(Num(0), Num(1)), Subscript(Num(3))>>,
              <<Subscript(Num(1)), SubscriptRange(Num(2), Num(0)), Subscript(Num(0))>>}
IndexInputs ==
    {JNum(1), JStr(StrX), ObjA(JNum(1)), JArr(<<>>), JArr(<<JNum(1)>>),
     JArr(<<JNum(1), JNum(2)>>), JArr(<<JNum(1), JStr(StrX), JNum(2)>>)}
StepLists == {NoList, EmptyList, JsonValueListAppend(EmptyList, JNum(7))}

(* The flags a step can run with: target unwrapping happens in lax mode     *)
(* only, lax mode always ignores structural errors (strict mode does inside *)
(* .** only), and strict mode always collects into a list.                  *)
StepFlags ==
    {f \in [lax : BOOLEAN, unwrap : BOOLEAN, ignoreStructuralErrors : BOOLEAN,
            throwErrors : BOOLEAN] :
        /\ f.unwrap => f.lax
        /\ f.lax => f.ignoreStructuralErrors}

(***************************************************************************)
(* The state machine: one call of one entry point.  pc is "idle" before    *)
(* the call and "done" after it; call holds the arguments and ret what the *)
(* entry point handed back.                                                *)
(***************************************************************************)
ApiCall(fn, jb, jp, vars_, silent, tz) ==
    [fn |-> fn, jb |-> jb, jp |-> jp, vars |-> vars_, silent |-> silent, tz |-> tz]

(* JSON_TABLE inputs.  A table function is its plan and, per column, the *)
(* expression of the column ("NULL" for an ORDINAL column).  Every scan   *)
(* has an ORDINAL column followed by a column reading the row pattern.    *)
NoTable == [rootplanstate |-> [plan |-> NoPlan], colvalexprs |-> <<>>, rows |-> <<>>]
RowsPath == JsonPath(TRUE, Root(jpiAnyArray(NoItem)))
(* lax $.key[*], or strict $.key[0, 1], which fails after its first item *)
(* on an array of one element.                                            *)
NestedPath(lax, key) ==
    IF lax THEN JsonPath(TRUE, Root(jpiKey(key, jpiAnyArray(NoItem))))
    ELSE JsonPath(FALSE, Root(jpiKey(key, jpiIndexArray(<<Subscript(Num(0)), Subscript(Num(1))>>,
                                                        NoItem))))
ScanCols == <<"NULL", "JsonExpr">>
TableFunc(plan, colvalexprs) == [plan |-> plan, colvalexprs |-> colvalexprs]
LScan(lax, errorOnError, child) ==
    JsonTablePathScan(NestedPath(lax, KeyL), errorOnError, 2, 3, child)
RScan == JsonTablePathScan(NestedPath(TRUE, KeyR), FALSE, 4, 5, NoPlan)
DeepScan == JsonTablePathScan(RowsPath, FALSE, 4, 5, NoPlan)
(* A right sibling with a nested scan of its own. *)
RDeepScan ==
    JsonTablePathScan(NestedPath(TRUE, KeyR), FALSE, 6, 7,
                      JsonTablePathScan(RowsPath, FALSE, 8, 9, NoPlan))
TableFuncs ==
    {TableFunc(JsonTablePathScan(RowsPath, FALSE, 0, 1, NoPlan), ScanCols)}
    \cup {TableFunc(JsonTablePathScan(RowsPath, FALSE, 0, 1, LScan(lax, e, NoPlan)),
                     ScanCols \o ScanCols) :
             lax \in BOOLEAN, e \in BOOLEAN}
    \cup {TableFunc(JsonTablePathScan(RowsPath, FALSE, 0, 1,
                                      JsonTableSiblingJoin(LScan(lax, FALSE, NoPlan), RScan)),
                     ScanCols \o ScanCols \o ScanCols) :
             lax \in BOOLEAN}
    \cup {TableFunc(JsonTablePathScan(RowsPath, FALSE, 0, 1, LScan(TRUE, FALSE, DeepScan)),
                     ScanCols \o ScanCols \o ScanCols)}
    \cup {TableFunc(JsonTablePathScan(RowsPath, FALSE, 0, 1,
                                      JsonTableSiblingJoin(LScan(TRUE, FALSE, DeepScan), RDeepScan)),
                     ScanCols \o ScanCols \o ScanCols \o ScanCols \o ScanCols)}
TableElems ==
    {JObj(<<JPair(KeyL, JArr(<<>>)), JPair(KeyR, JArr(<<>>))>>),
     JObj(<<JPair(KeyL, JArr(<<JNum(1)>>)), JPair(KeyR, JArr(<<>>))>>),
     JObj(<<JPair(KeyL, JArr(<<JNum(1), JNum(2)>>)), JPair(KeyR, JArr(<<JNum(1)>>))>>),
     JObj(<<JPair(KeyL, JArr(<<>>)), JPair(KeyR, JArr(<<JNum(1), JNum(2)>>))>>),
     JObj(<<JPair(KeyR, JArr(<<JNum(1)>>))>>),
     JObj(<<JPair(KeyL, JArr(<<JArr(<<JNum(1), JNum(2)>>), JArr(<<>>)>>)), JPair(KeyR, JArr(<<>>))>>)}
TableDocs ==
    {JArr(<<>>)} \cup {JArr(<<a>>) : a \in TableElems}
        \cup {JArr(<<a, b>>) : a \in TableElems, b \in TableElems}
(* The documents given to a later set-document. *)
RescanDocs ==
    {JArr(<<>>),
     JArr(<<JObj(<<JPair(KeyL, JArr(<<>>)), JPair(KeyR, JArr(<<>>))>>)>>),
     JArr(<<JObj(<<JPair(KeyL, JArr(<<JNum(1)>>)), JPair(KeyR, JArr(<<JNum(1)>>))>>)>>)}

Init ==
    /\ pc = "idle"
    /\ call = [fn |-> "none"]
    /\ ret = [raised |-> NoError]
    /\ tbl = NoTable

JsonbPathExists ==
    /\ pc = "idle"
    /\ \E jb \in Docs, jp \in Paths, silent \in BOOLEAN :
        /\ call' = ApiCall("jsonb_path_exists", jb, jp, NoVars, silent, FALSE)
        /\ ret' = Call("jsonb_path_exists_internal", <<jb, jp, NoVars, silent, FALSE>>)
    /\ pc' = "done"
    /\ UNCHANGED tbl

JsonbPathMatch ==
    /\ pc = "idle"
    /\ \E jb \in Docs, jp \in Paths, silent \in BOOLEAN :
        /\ call' = ApiCall("jsonb_path_match", jb, jp, NoVars, silent, FALSE)
        /\ ret' = Call("jsonb_path_match_internal", <<jb, jp, NoVars, silent, FALSE>>)
    /\ pc' = "done"
    /\ UNCHANGED tbl

JsonbPathQuery ==
    /\ pc = "idle"
    /\ \E jb \in Docs, jp \in Paths, silent \in BOOLEAN :
        /\ call' = ApiCall("jsonb_path_query", jb, jp, NoVars, silent, FALSE)
        /\ ret' = Call("jsonb_path_query_internal", <<jb, jp, NoVars, silent, FALSE>>)
    /\ pc' = "done"
    /\ UNCHANGED tbl

JsonbPathQueryArray ==
    /\ pc = "idle"
    /\ \E jb \in Docs, jp \in Paths, silent \in BOOLEAN :
        /\ call' = ApiCall("jsonb_path_query_array", jb, jp, NoVars, silent, FALSE)
        /\ ret' = Call("jsonb_path_query_array_internal", <<jb, jp, NoVars, silent, FALSE>>)
    /\ pc' = "done"
    /\ UNCHANGED tbl

JsonbPathQueryFirst ==
    /\ pc = "idle"
    /\ \E jb \in Docs, jp \in Paths, silent \in BOOLEAN :
        /\ call' = ApiCall("jsonb_path_query_first", jb, jp, NoVars, silent, FALSE)
        /\ ret' = Call("jsonb_path_query_first_internal", <<jb, jp, NoVars, silent, FALSE>>)
    /\ pc' = "done"
    /\ UNCHANGED tbl

(* A direct call of executeJsonPath(), as JsonPathExists(), JsonPathQuery() *)
(* and the JSON_TABLE driver make it.                                      *)
ExecuteJsonPath ==
    /\ pc = "idle"
    /\ \E c \in PathCases, throwErrors \in BOOLEAN, result \in {NoList, EmptyList} :
        /\ call' = [fn |-> "executeJsonPath", jb |-> c[1][1], jp |-> c[1][2], vars |-> c[2],
                    throwErrors |-> throwErrors, result |-> result, tz |-> c[3]]
        /\ ret' = Call("executeJsonPath", <<c[1][2], c[2], c[1][1], throwErrors, result, c[3]>>)
    /\ pc' = "done"
    /\ UNCHANGED tbl

(* A direct call of executeBoolItem() on item jb, which is also the root *)
(* and the current item.                                                 *)
ExecuteBoolItem ==
    /\ pc = "idle"
    /\ \E c \in BoolCases, lax \in BOOLEAN :
        LET cxt == InitContext(JsonPath(lax, c[1]), NoVars, c[2], c[4], c[3])
        IN /\ call' = [fn |-> "executeBoolItem", cxt |-> cxt, jsp |-> c[1], jb |-> c[2]]
           /\ ret' = Call("executeBoolItem", <<cxt, c[1], c[2], TRUE>>)
    /\ pc' = "done"
    /\ UNCHANGED tbl

CompareItems ==
    /\ pc = "idle"
    /\ \E op \in ComparisonOps, jb1 \in CompareValues, jb2 \in CompareValues,
          useTz \in BOOLEAN :
        /\ call' = [fn |-> "compareItems", op |-> op, jb1 |-> jb1, jb2 |-> jb2,
                    useTz |-> useTz]
        /\ ret' = compareItems(op, jb1, jb2, useTz)
    /\ pc' = "done"
    /\ UNCHANGED tbl

(* A filter step executed on input jb while the current item of an       *)
(* enclosing filter is on the stack.  The step runs with target          *)
(* unwrapping only in lax mode: executeItem() passes jspAutoUnwrap(cxt), *)
(* executeItemUnwrapTargetArray() passes false.  Strict mode always      *)
(* collects into a list.                                                 *)
ExecuteFilterStep ==
    /\ pc = "idle"
    /\ \E pred \in FilterPreds, next \in FilterNexts, jb \in FilterInputs,
          found \in FilterLists, unwrap \in BOOLEAN, lax \in BOOLEAN,
          throwErrors \in BOOLEAN :
        /\ unwrap => lax
        /\ ~lax => found.given
        /\ LET jsp == jpiFilter(pred, next)
               root == JObj(<<JPair(KeyA, jb)>>)
               cxt == [InitContext(JsonPath(lax, jsp), NoVars, root, throwErrors, FALSE)
                           EXCEPT !.current = JStr(StrXY)]
           IN /\ call' = [fn |-> "executeItemOptUnwrapTarget", cxt |-> cxt, jsp |-> jsp,
                          jb |-> jb, found |-> found, unwrap |-> unwrap]
              /\ ret' = Call("executeItemOptUnwrapTarget", <<cxt, jsp, jb, found, unwrap>>)
    /\ pc' = "done"
    /\ UNCHANGED tbl

(* A member accessor step executed on item jb. *)
ExecuteKeyStep ==
    /\ pc = "idle"
    /\ \E jb \in KeyInputs, found \in StepLists, f \in StepFlags :
        /\ ~f.lax => found.given
        /\ LET jsp == jpiKey(KeyA, NoItem)
               cxt == [InitContext(JsonPath(f.lax, jsp), NoVars, jb, f.throwErrors, FALSE)
                           EXCEPT !.ignoreStructuralErrors = f.ignoreStructuralErrors]
           IN /\ call' = [fn |-> "executeItemOptUnwrapTarget", cxt |-> cxt, jsp |-> jsp,
                          jb |-> jb, found |-> found, unwrap |-> f.unwrap]
              /\ ret' = Call("executeItemOptUnwrapTarget", <<cxt, jsp, jb, found, f.unwrap>>)
    /\ pc' = "done"
    /\ UNCHANGED tbl

(* An array subscript step executed on item jb. *)
ExecuteIndexStep ==
    /\ pc = "idle"
    /\ \E jb \in IndexInputs, elems \in IndexSteps, found \in StepLists, f \in StepFlags :
        /\ ~f.lax => found.given
        /\ LET jsp == jpiIndexArray(elems, NoItem)
               cxt == [InitContext(JsonPath(f.lax, jsp), NoVars, jb, f.throwErrors, FALSE)
                           EXCEPT !.ignoreStructuralErrors = f.ignoreStructuralErrors]
           IN /\ call' = [fn |-> "executeItemOptUnwrapTarget", cxt |-> cxt, jsp |-> jsp,
                          jb |-> jb, found |-> found, unwrap |-> f.unwrap]
              /\ ret' = Call("executeItemOptUnwrapTarget", <<cxt, jsp, jb, found, f.unwrap>>)
    /\ pc' = "done"
    /\ UNCHANGED tbl

(* JsonTableInitOpaque(): the plan states of a JSON_TABLE over document   *)
(* doc, no row pattern evaluated yet.                                      *)
InitOpaque ==
    /\ pc = "idle"
    /\ \E tf \in TableFuncs :
        /\ call' = [fn |-> "JsonTable", tf |-> tf, doc |-> NoContainer, midscan |-> FALSE]
        /\ tbl' = [rootplanstate |-> JsonTableInitPlan(tf.plan),
                   colvalexprs |-> tf.colvalexprs, rows |-> <<>>]
    /\ ret' = [raised |-> NoError]
    /\ pc' = "JsonTableInitOpaque"

(* JsonTableSetDocument(): evaluate the row pattern of the root plan on a  *)
(* document: the first one, or another one.  midscan records a document    *)
(* given after a fetch-row that returned true, before the rows of the      *)
(* previous document were exhausted.                                       *)
SetDocument ==
    /\ pc \in {"JsonTableInitOpaque", "JsonTableSetDocument", "JsonTableFetchRow",
               "JsonTableGetValue", "JsonTableDestroyOpaque"}
    /\ \E doc \in (IF pc = "JsonTableInitOpaque" THEN TableDocs ELSE RescanDocs) :
        LET r == Call("JsonTableResetRowPattern", <<tbl.rootplanstate, doc>>)
        IN /\ call' = [call EXCEPT !.doc = doc,
                                   !.midscan = @ \/ pc \in {"JsonTableFetchRow", "JsonTableGetValue"}]
           /\ ret' = [raised |-> r.raised]
           /\ tbl' = [tbl EXCEPT !.rootplanstate = r.planstate, !.rows = <<>>]
           /\ pc' = IF r.raised # NoError THEN "done" ELSE "JsonTableSetDocument"

(* JsonTableFetchRow(): the next row, also asked for again after it has    *)
(* returned false.  The scan node then reads every column of the row with  *)
(* JsonTableGetValue() and stores the tuple: rows.                         *)
FetchRow ==
    /\ pc \in {"JsonTableSetDocument", "JsonTableFetchRow", "JsonTableGetValue",
               "JsonTableDestroyOpaque"}
    /\ LET r == Call("JsonTablePlanNextRow", <<tbl.rootplanstate>>)
           cxt == [tbl EXCEPT !.rootplanstate = r.planstate]
       IN /\ ret' = [raised |-> r.raised, more |-> r.more]
          /\ tbl' = IF r.more
                    THEN [cxt EXCEPT !.rows = Append(@, [c \in 1..Len(cxt.colvalexprs) |->
                                                            JsonTableGetValue(cxt, c - 1)])]
                    ELSE cxt
          /\ pc' = IF r.raised # NoError THEN "done"
                   ELSE IF r.more THEN "JsonTableFetchRow" ELSE "JsonTableDestroyOpaque"
    /\ UNCHANGED call

(* JsonTableGetValue() for one column of the current row. *)
GetValue ==
    /\ pc \in {"JsonTableFetchRow", "JsonTableGetValue"}
    /\ \E colnum \in 0..(Len(tbl.colvalexprs) - 1) :
        LET v == JsonTableGetValue(tbl, colnum)
        IN ret' = [raised |-> NoError, more |-> TRUE, colnum |-> colnum,
                   isnull |-> v.isnull, value |-> v.value]
    /\ pc' = "JsonTableGetValue"
    /\ UNCHANGED <<call, tbl>>

Next ==
    \/ CompareItems
    \/ ExecuteBoolItem
    \/ ExecuteFilterStep
    \/ ExecuteIndexStep
    \/ ExecuteKeyStep
    \/ ExecuteJsonPath
    \/ JsonbPathExists
    \/ JsonbPathMatch
    \/ JsonbPathQuery
    \/ JsonbPathQueryArray
    \/ JsonbPathQueryFirst
    \/ InitOpaque
    \/ SetDocument
    \/ FetchRow
    \/ GetValue

Spec == Init /\ [][Next]_vars

(* The table function scan node: it sets a document when the function has *)
(* just been initialized or the rows of the previous document are          *)
(* exhausted, and then calls fetch-row until it returns false, reading the *)
(* columns of each row in between.                                         *)
SetDocumentInOrder ==
    /\ pc \in {"JsonTableInitOpaque", "JsonTableDestroyOpaque"}
    /\ SetDocument

FairNext ==
    \/ InitOpaque
    \/ SetDocumentInOrder
    \/ FetchRow
    \/ GetValue

(* The scan node does not stop in the middle of a document: while rows are *)
(* being fetched, a fetch-row call that gives the first or the next row    *)
(* after a get-value, ends the rows or raises an error comes about.        *)
ScanGoesOn ==
    /\ pc \in {"JsonTableSetDocument", "JsonTableFetchRow", "JsonTableGetValue"}
    /\ pc' \in {"JsonTableFetchRow", "JsonTableDestroyOpaque", "done"}

FairSpec == Init /\ [][FairNext]_vars /\ WF_pc(ScanGoesOn)

(***************************************************************************)
(* Properties.                                                             *)
(***************************************************************************)
ApiFns ==
    {"jsonb_path_exists", "jsonb_path_match", "jsonb_path_query",
     "jsonb_path_query_array", "jsonb_path_query_first"}

SilentApiCall == pc = "done" /\ call.fn \in ApiFns /\ call.silent

(* The status the path evaluation of a silent call ends with is Error. *)
HitsError(c) ==
    LET res == executeJsonPath(c.jp, c.vars, c.jb, FALSE,
                               IF c.fn = "jsonb_path_exists" THEN NoList ELSE EmptyList,
                               c.tz)
    IN ~IsRaised(res) /\ jperIsError(res.res)

PresentsAsNullOrEmpty(c, r) ==
    /\ r.raised = NoError
    /\ CASE c.fn \in {"jsonb_path_exists", "jsonb_path_match", "jsonb_path_query_first"}
              -> r.isnull
         [] c.fn = "jsonb_path_query" -> r.value = <<>>
         [] c.fn = "jsonb_path_query_array" -> ~r.isnull /\ r.value = JArr(<<>>)

(* C1: with silent = true, exists, match, query, query_array and query_first *)
(* never raise a recoverable error, and an evaluation that ends in the Error *)
(* status presents as null (exists, match, query_first) or as an empty       *)
(* result (query, query_array), with no item collected before the error.     *)
C1_SilentContract ==
    SilentApiCall =>
        /\ ret.raised \notin RecoverableErrors
        /\ HitsError(call) => PresentsAsNullOrEmpty(call, ret)

(* The evaluation of call c with throwErrors = true raises a recoverable error. *)
ThrowingRunRaises(c) ==
    executeJsonPath(c.jp, c.vars, c.jb, TRUE, c.result, c.tz).raised \in RecoverableErrors

NoThrowPathCall == pc = "done" /\ call.fn = "executeJsonPath" /\ ~call.throwErrors

(* C2: executeJsonPath with throwErrors = false returns the Error status      *)
(* exactly when the same evaluation with throwErrors = true raises a          *)
(* recoverable error; no step drops an Error returned by a later step.        *)
C2_ErrorStatusPropagates ==
    NoThrowPathCall =>
        ((~IsRaised(ret) /\ ret.res = "jperError") <=> ThrowingRunRaises(call))

(* The same evaluation with a result list: the full result sequence, up to *)
(* the first error.                                                        *)
CollectingRun(c) ==
    executeJsonPath(c.jp, c.vars, c.jb, FALSE, EmptyList, c.tz)

ExistenceOnlyCall ==
    /\ pc = "done"
    /\ call.fn = "executeJsonPath"
    /\ ~call.throwErrors
    /\ ~call.result.given
    /\ ~IsRaised(ret)

(* C3: in an existence-only call, strict mode enumerates the whole path:    *)
(* the status is Error if any item evaluation errors, NotFound if the full  *)
(* result sequence is empty, Ok otherwise; lax mode returns Ok as soon as a *)
(* first result item exists, whatever the remaining items would do.         *)
C3_ExistenceOnlyStatus ==
    ExistenceOnlyCall =>
        IF ~call.jp.lax
        THEN ret.res = (IF ThrowingRunRaises(call) THEN "jperError"
                        ELSE IF JsonValueListIsEmpty(CollectingRun(call).found)
                        THEN "jperNotFound"
                        ELSE "jperOk")
        ELSE ~JsonValueListIsEmpty(CollectingRun(call).found) => ret.res = "jperOk"

MatchCall == pc = "done" /\ call.fn = "jsonb_path_match"

(* The path evaluation a jsonb_path_match call makes. *)
MatchRun(c) == executeJsonPath(c.jp, c.vars, c.jb, ~c.silent, EmptyList, c.tz)

(* C4: when the path evaluates without error, match returns the boolean if  *)
(* the result sequence is exactly one boolean item, null if it is exactly   *)
(* one JSON null, and for every other result raises                         *)
(* SINGLETON_SQL_JSON_ITEM_REQUIRED when silent is false and returns null   *)
(* when silent is true.                                                     *)
C4_MatchSingleton ==
    (MatchCall /\ ~IsRaised(MatchRun(call)) /\ ~jperIsError(MatchRun(call).res)) =>
        LET items == MatchRun(call).found.items
        IN IF Len(items) = 1 /\ items[1].type = "jbvBool"
           THEN ret.raised = NoError /\ ~ret.isnull /\ ret.value = items[1].boolean
           ELSE IF Len(items) = 1 /\ items[1].type = "jbvNull"
           THEN ret.raised = NoError /\ ret.isnull
           ELSE IF call.silent
           THEN ret.raised = NoError /\ ret.isnull
           ELSE ret.raised = "ERRCODE_SINGLETON_SQL_JSON_ITEM_REQUIRED"

(* A non-silent match whose path yields two or more items raises. *)
C4_Witness ==
    /\ MatchCall
    /\ ~call.silent
    /\ ~IsRaised(MatchRun(call))
    /\ Len(MatchRun(call).found.items) >= 2
    /\ ret.raised = "ERRCODE_SINGLETON_SQL_JSON_ITEM_REQUIRED"

BoolItemCall == pc = "done" /\ call.fn = "executeBoolItem"

KleeneCall ==
    /\ BoolItemCall
    /\ call.jsp.type \in {"jpiAnd", "jpiOr", "jpiNot", "jpiIsUnknown"}
    /\ ~IsRaised(ret)

(* The verdict of operand p of the predicate of call c, evaluated alone. *)
Verdict(c, p) == executeBoolItem(c.cxt, p, c.jb, FALSE).st

KleeneAnd(l, r) ==
    IF l = "jpbFalse" \/ r = "jpbFalse" THEN "jpbFalse"
    ELSE IF l = "jpbUnknown" \/ r = "jpbUnknown" THEN "jpbUnknown"
    ELSE "jpbTrue"

KleeneOr(l, r) ==
    IF l = "jpbTrue" \/ r = "jpbTrue" THEN "jpbTrue"
    ELSE IF l = "jpbUnknown" \/ r = "jpbUnknown" THEN "jpbUnknown"
    ELSE "jpbFalse"

KleeneNot(l) ==
    CASE l = "jpbTrue" -> "jpbFalse"
      [] l = "jpbFalse" -> "jpbTrue"
      [] l = "jpbUnknown" -> "jpbUnknown"

(* C5: AND, OR, NOT and IS UNKNOWN follow the three-valued truth tables    *)
(* over the verdicts of their operands, and every predicate returns one of *)
(* True, False, Unknown.                                                   *)
C5_KleeneLaws ==
    /\ (BoolItemCall /\ ~IsRaised(ret)) => ret.st \in JsonPathBool
    /\ KleeneCall =>
        ret.st = CASE call.jsp.type = "jpiAnd" ->
                        KleeneAnd(Verdict(call, call.jsp.left), Verdict(call, call.jsp.right))
                   [] call.jsp.type = "jpiOr" ->
                        KleeneOr(Verdict(call, call.jsp.left), Verdict(call, call.jsp.right))
                   [] call.jsp.type = "jpiNot" -> KleeneNot(Verdict(call, call.jsp.arg))
                   [] call.jsp.type = "jpiIsUnknown" ->
                        IF Verdict(call, call.jsp.arg) = "jpbUnknown" THEN "jpbTrue" ELSE "jpbFalse"

(* Unknown AND False is False. *)
C5_Witness ==
    /\ KleeneCall
    /\ call.jsp.type = "jpiAnd"
    /\ Verdict(call, call.jsp.left) = "jpbUnknown"
    /\ Verdict(call, call.jsp.right) = "jpbFalse"
    /\ ret.st = "jpbFalse"

(* The predicate with a sub-path operand inside the predicate of a call:   *)
(* the predicate itself, or the operand of the NOT, AND or OR around it.   *)
InnerPred(jsp) ==
    CASE jsp.type = "jpiNot" -> jsp.arg
      [] jsp.type = "jpiAnd" -> jsp.left
      [] jsp.type = "jpiOr" -> jsp.right
      [] OTHER -> jsp

(* The sub-path operand of a predicate of OperandFamilyPreds. *)
OperandOf(pred) ==
    CASE pred.type = "jpiExists" -> pred.arg
      [] pred.type = "jpiLikeRegex" -> pred.expr
      [] pred.left \in OperandPaths -> pred.left
      [] OTHER -> pred.right

(* An error arises while predicate pred evaluates its operand on item jb:  *)
(* the evaluation the predicate makes of it raises once errors are thrown. *)
OperandErrors(cxt, pred, jb) ==
    executeItemOptUnwrapResult(
        [cxt EXCEPT !.throwErrors = TRUE], OperandOf(pred), jb,
        pred.type # "jpiExists",
        IF pred.type = "jpiExists" /\ ~jspStrictAbsenceOfErrors(cxt)
        THEN NoList ELSE EmptyList).raised \in RecoverableErrors

OperandCall == BoolItemCall /\ InnerPred(call.jsp) \in OperandFamilyPreds

(* C6: an error that arises while a predicate evaluates an operand sub-path *)
(* makes the predicate Unknown, neither raised nor an Error status, also    *)
(* when throwErrors is true; the Unknown combines through NOT, AND and OR;  *)
(* cxt.throwErrors has its previous value after the evaluation.             *)
C6_OperandErrorIsUnknown ==
    OperandCall =>
        /\ ~IsRaised(ret)
        /\ ret.cxt.throwErrors = call.cxt.throwErrors
        /\ OperandErrors(call.cxt, InnerPred(call.jsp), call.jb) => ret.st = "jpbUnknown"

SeqCmpCall == BoolItemCall /\ call.jsp \in SeqPreds \cup DatetimePreds

(* The item sequence operand arg of the comparison of call c evaluates to. *)
OperandSeq(c, arg) ==
    executeItemOptUnwrapResultNoThrow(c.cxt, arg, c.jb, TRUE, EmptyList)

LeftSeq(c) == OperandSeq(c, c.jsp.left).found.items
RightSeq(c) == OperandSeq(c, c.jsp.right).found.items

(* Both operands of the comparison of call c evaluate without error. *)
OperandsOk(c) ==
    LET l == OperandSeq(c, c.jsp.left)
        r == OperandSeq(c, c.jsp.right)
    IN /\ ~IsRaised(l) /\ ~jperIsError(l.res)
       /\ ~IsRaised(r) /\ ~jperIsError(r.res)

(* The pairs (l, r) in the order they are compared: for each item of the *)
(* left sequence, every item of the right sequence.  PairCmps(c) holds   *)
(* what compareItems() gives for each pair, in that order.               *)
PairCmps(c) ==
    LET L == LeftSeq(c)
        R == RightSeq(c)
    IN [k \in 1..(Len(L) * Len(R)) |->
            compareItems(c.jsp.type, L[((k - 1) \div Len(R)) + 1],
                         R[((k - 1) % Len(R)) + 1], c.cxt.useTz)]
NumPairs(cmps) == Len(cmps)
PairIs(cmps, k, st) == cmps[k].raised = NoError /\ cmps[k].st = st
PairRaises(cmps, k) == cmps[k].raised # NoError
NoRaiseBefore(cmps, k) == \A j \in 1..(k - 1) : ~PairRaises(cmps, j)

LaxCmpCall == SeqCmpCall /\ call.cxt.laxMode /\ OperandsOk(call)

(* C7: in lax mode a comparison over sequences L and R is True if some pair *)
(* compares True, evaluation stopping at the first such pair; otherwise     *)
(* Unknown if some pair compared Unknown; otherwise False, also when L or R *)
(* is empty.                                                                *)
C7_LaxComparison ==
    LaxCmpCall =>
        LET cmps == PairCmps(call)
        IN /\ (\E k \in 1..NumPairs(cmps) : PairIs(cmps, k, "jpbTrue") /\ NoRaiseBefore(cmps, k))
                => (~IsRaised(ret) /\ ret.st = "jpbTrue")
           /\ (\A k \in 1..NumPairs(cmps) : ~PairIs(cmps, k, "jpbTrue") /\ ~PairRaises(cmps, k))
                => /\ ~IsRaised(ret)
                   /\ ret.st = IF \E k \in 1..NumPairs(cmps) : PairIs(cmps, k, "jpbUnknown")
                               THEN "jpbUnknown" ELSE "jpbFalse"

(* A lax comparison is True although a pair after the first True pair *)
(* cannot be compared without a time zone.                            *)
C7_Witness ==
    /\ LaxCmpCall
    /\ \E k \in 1..NumPairs(PairCmps(call)) : PairRaises(PairCmps(call), k)
    /\ ~IsRaised(ret)
    /\ ret.st = "jpbTrue"

StrictCmpCall == SeqCmpCall /\ ~call.cxt.laxMode /\ OperandsOk(call)

(* C8: in strict mode a comparison over sequences L and R is Unknown if any *)
(* pair compares Unknown, also after a True pair; otherwise True if some    *)
(* pair compares True; otherwise False.                                     *)
C8_StrictComparison ==
    StrictCmpCall =>
        LET cmps == PairCmps(call)
        IN /\ (\E k \in 1..NumPairs(cmps) : PairIs(cmps, k, "jpbUnknown") /\ NoRaiseBefore(cmps, k))
                => (~IsRaised(ret) /\ ret.st = "jpbUnknown")
           /\ (\A k \in 1..NumPairs(cmps) : ~PairIs(cmps, k, "jpbUnknown") /\ ~PairRaises(cmps, k))
                => /\ ~IsRaised(ret)
                   /\ ret.st = IF \E k \in 1..NumPairs(cmps) : PairIs(cmps, k, "jpbTrue")
                               THEN "jpbTrue" ELSE "jpbFalse"

(* A strict comparison is Unknown although an earlier pair compared True. *)
C8_Witness ==
    /\ StrictCmpCall
    /\ LET cmps == PairCmps(call)
       IN \E k \in 1..NumPairs(cmps) :
            /\ PairIs(cmps, k, "jpbUnknown")
            /\ \E j \in 1..(k - 1) : PairIs(cmps, j, "jpbTrue")
    /\ ret.st = "jpbUnknown"

CompareCall == pc = "done" /\ call.fn = "compareItems"

(* C9: compareItems on items of different kinds is True for != and False    *)
(* for the other operators if exactly one is null, and Unknown if neither   *)
(* is null; two nulls are equal (True for =, <=, >=, False otherwise); two  *)
(* arrays or objects are Unknown for all six operators.                     *)
C9_CompareKinds ==
    CompareCall =>
        LET k1 == JsonbType(call.jb1)
            k2 == JsonbType(call.jb2)
            containers == {"jbvArray", "jbvObject"}
        IN IF k1 \in containers /\ k2 \in containers
           THEN ret = BoolRes("jpbUnknown")
           ELSE IF k1 # k2
           THEN (IF k1 = "jbvNull" \/ k2 = "jbvNull"
                 THEN ret = BoolRes(IF call.op = "jpiNotEqual" THEN "jpbTrue" ELSE "jpbFalse")
                 ELSE ret = BoolRes("jpbUnknown"))
           ELSE k1 = "jbvNull" =>
                    ret = BoolRes(IF call.op \in {"jpiEqual", "jpiLessOrEqual", "jpiGreaterOrEqual"}
                                  THEN "jpbTrue" ELSE "jpbFalse")

(* null <= null is True. *)
C9_Witness ==
    /\ CompareCall
    /\ JsonbType(call.jb1) = "jbvNull"
    /\ JsonbType(call.jb2) = "jbvNull"
    /\ call.op = "jpiLessOrEqual"
    /\ ret = BoolRes("jpbTrue")

FilterCall == pc = "done" /\ call.fn = "executeItemOptUnwrapTarget" /\ call.jsp.type = "jpiFilter"

(* The verdict of the predicate of filter step c with @ bound to item v. *)
FilterVerdict(c, v) == executeNestedBoolItem(c.cxt, c.jsp.arg, v).st

(* What the filter step of call c does with item v and result list found   *)
(* when it treats v as one value: v goes unchanged to the next step if the *)
(* predicate is True on it and is dropped without error otherwise.         *)
PassOrDrop(c, v, found) ==
    IF FilterVerdict(c, v) = "jpbTrue"
    THEN executeNextItem(c.cxt, c.jsp, v, found)
    ELSE Res("jperNotFound", c.cxt, found)

SameOutcome(r, expected) ==
    /\ r.raised = expected.raised
    /\ r.found = expected.found
    /\ ~IsRaised(r) => (r.res = expected.res /\ r.cxt.current = expected.cxt.current)

(* The step unwraps its input: it runs with target unwrapping on an array. *)
FilterUnwraps(c) == c.unwrap /\ JsonbType(c.jb) = "jbvArray"

(* The elements of array jb on which the predicate of filter step c is True. *)
PassingElements(c, jb) ==
    SelectSeq(jb.children, LAMBDA e : FilterVerdict(c, e) = "jpbTrue")

(* C10 as stated: a filter step applied to input v passes exactly v to the *)
(* next step if and only if its predicate is True with @ bound to v, drops *)
(* v without error otherwise, and leaves cxt.current as it was.            *)
C10_FilterPassesInput ==
    FilterCall =>
        /\ SameOutcome(ret, PassOrDrop(call, call.jb, call.found))
        /\ ~IsRaised(ret) => ret.cxt.current = call.cxt.current

(* C10, amended: the filter step treats its input v as one value when v is  *)
(* not an array or the step runs without target unwrapping; with target     *)
(* unwrapping (lax mode) an array input is unwrapped one level and the      *)
(* filter is applied to each element, so a last filter step appends the     *)
(* elements whose predicate is True, in order.  cxt.current is restored in  *)
(* both cases.                                                              *)
C10_FilterPassesInputOrElements ==
    FilterCall =>
        /\ ~FilterUnwraps(call) => SameOutcome(ret, PassOrDrop(call, call.jb, call.found))
        /\ (FilterUnwraps(call) /\ ~jspHasNext(call.jsp) /\ call.found.given) =>
                /\ ~IsRaised(ret)
                /\ ret.found.items = call.found.items \o PassingElements(call, call.jb)
        /\ ~IsRaised(ret) => ret.cxt.current = call.cxt.current

(* A lax filter step on an array whose predicate is True on the array and *)
(* on one of its two elements passes only that element.                   *)
C10_Witness ==
    /\ FilterCall
    /\ FilterUnwraps(call)
    /\ ~jspHasNext(call.jsp)
    /\ call.found.given
    /\ FilterVerdict(call, call.jb) = "jpbTrue"
    /\ Len(call.jb.children) = 2
    /\ Len(PassingElements(call, call.jb)) = 1
    /\ ret.found.items = call.found.items \o PassingElements(call, call.jb)

FatalCall == pc = "done" /\ call.fn = "executeJsonPath" /\ <<<<call.jb, call.jp>>, call.vars, call.tz>> \in FatalCases

(* The error the evaluation of call c has to raise. *)
FatalCode(c) ==
    IF c.jp.expr \in FatalVarExprs THEN "ERRCODE_UNDEFINED_OBJECT"
    ELSE "ERRCODE_FEATURE_NOT_SUPPORTED"

(* C11: a reference to an unbound variable, and a datetime cast or          *)
(* comparison that needs a time zone while useTz is false, raise their      *)
(* error whatever throwErrors and the mode are, also inside a predicate     *)
(* operand or a filter and in an existence-only evaluation; with useTz the  *)
(* datetime paths raise nothing.                                            *)
C11_NonRecoverableRaised ==
    FatalCall =>
        IF call.jp.expr \in FatalVarExprs \/ ~call.tz THEN ret.raised = FatalCode(call) ELSE ~IsRaised(ret)

(* An existence-only evaluation with errors suppressed whose path is just *)
(* an unbound variable raises UNDEFINED_OBJECT.                           *)
C11_Witness ==
    /\ FatalCall
    /\ call.jp.expr = UnboundVar(NoItem)
    /\ ~call.throwErrors
    /\ ~call.result.given
    /\ ret.raised = "ERRCODE_UNDEFINED_OBJECT"

(* A call of executeJsonPath() whose path is one predicate, nothing after it. *)
PredicatePathCall ==
    /\ pc = "done"
    /\ call.fn = "executeJsonPath"
    /\ call.jp.expr.type \in BoolItems
    /\ ~jspHasNext(call.jp.expr)

(* The verdict of the predicate that is the path of call c. *)
PathVerdict(c) ==
    executeBoolItem(InitContext(c.jp, c.vars, c.jb, c.throwErrors, c.tz), c.jp.expr, c.jb, TRUE)

(* The JSON item a verdict lifts to. *)
VerdictItem(st) ==
    CASE st = "jpbTrue" -> JBool(TRUE)
      [] st = "jpbFalse" -> JBool(FALSE)
      [] st = "jpbUnknown" -> JNull

(* C12: a predicate used as the path yields exactly one item, true for     *)
(* True, false for False and null for Unknown; an existence-only           *)
(* evaluation of it returns Ok whatever the verdict, so exists reports a   *)
(* match also for False and Unknown.                                       *)
C12_PredicateAsItem ==
    /\ (PredicatePathCall /\ ~IsRaised(PathVerdict(call))) =>
            /\ ~IsRaised(ret)
            /\ ret.res = "jperOk"
            /\ ret.found.items = IF call.result.given
                                 THEN <<VerdictItem(PathVerdict(call).st)>> ELSE <<>>
    /\ (pc = "done" /\ call.fn = "jsonb_path_exists" /\ call.jp.expr.type \in BoolItems
            /\ ~jspHasNext(call.jp.expr) /\ ~IsRaised(ret)) =>
            ret = Returned(TRUE)

(* An existence-only evaluation of a predicate whose verdict is Unknown *)
(* returns Ok, and exists over a False predicate reports a match.       *)
C12_Witness ==
    \/ /\ PredicatePathCall
       /\ ~call.result.given
       /\ PathVerdict(call).st = "jpbUnknown"
       /\ ~IsRaised(PathVerdict(call))
       /\ ret.res = "jperOk"
    \/ /\ pc = "done" /\ call.fn = "jsonb_path_exists"
       /\ call.jp.expr.type \in ComparisonOps
       /\ executeBoolItem(InitContext(call.jp, call.vars, call.jb, ~call.silent, call.tz),
                          call.jp.expr, call.jb, TRUE).st = "jpbFalse"
       /\ ret = Returned(TRUE)

KeyCall == pc = "done" /\ call.fn = "executeItemOptUnwrapTarget" /\ call.jsp.type = "jpiKey"

(* The value key maps to in item jb: one value, or none when jb is not an *)
(* object or lacks the key.                                               *)
MemberOf(jb, key) ==
    IF JsonbType(jb) = "jbvObject" /\ \E i \in 1..Len(jb.children) : jb.children[i].key = key
    THEN <<jb.children[CHOOSE i \in 1..Len(jb.children) : jb.children[i].key = key].value>>
    ELSE <<>>

(* The members of the elements of an array, in array order, one level. *)
RECURSIVE MembersOfElements(_, _, _)
MembersOfElements(elems, i, key) ==
    IF i > Len(elems) THEN <<>>
    ELSE MemberOf(elems[i], key) \o MembersOfElements(elems, i + 1, key)

(* The member accessor of call c is applied to each element of its input. *)
KeyUnwraps(c) == c.unwrap /\ JsonbType(c.jb) = "jbvArray"

(* What the accessor of call c has to yield when it is not an error. *)
KeyYield(c) ==
    IF KeyUnwraps(c) THEN MembersOfElements(c.jb.children, 1, c.jsp.string)
    ELSE MemberOf(c.jb, c.jsp.string)

(* C13: the member accessor yields the mapped value of an object that has   *)
(* the key; on an object lacking it, and on a value that is neither object  *)
(* nor (with lax unwrapping) array, it yields nothing when structural       *)
(* errors are ignored and the MEMBER_NOT_FOUND error otherwise; on an array *)
(* in lax mode it is applied to each element in order, one level only.      *)
C13_MemberAccessor ==
    KeyCall =>
        IF KeyYield(call) = <<>> /\ ~KeyUnwraps(call) /\ ~call.cxt.ignoreStructuralErrors
        THEN /\ ret.found = call.found
             /\ IF call.cxt.throwErrors
                THEN ret.raised = "ERRCODE_SQL_JSON_MEMBER_NOT_FOUND"
                ELSE ~IsRaised(ret) /\ ret.res = "jperError"
        ELSE /\ ~IsRaised(ret)
             /\ ret.res = IF KeyYield(call) = <<>> THEN "jperNotFound" ELSE "jperOk"
             /\ ret.found.items = IF call.found.given
                                  THEN call.found.items \o KeyYield(call) ELSE <<>>

(* `strict $.a` on [1, 2] is an error and `lax $.a` on [1, 2] is an empty *)
(* result.                                                                *)
C13_Scenario ==
    (/\ pc = "done" /\ call.fn = "executeJsonPath"
     /\ call.jp.expr = Root(jpiKey(KeyA, NoItem))
     /\ call.jb = JArr(<<JNum(1), JNum(2)>>)) =>
        IF call.jp.lax
        THEN ~IsRaised(ret) /\ ret.res = "jperNotFound" /\ ret.found.items = <<>>
        ELSE IF call.throwErrors THEN ret.raised = "ERRCODE_SQL_JSON_MEMBER_NOT_FOUND"
        ELSE ~IsRaised(ret) /\ ret.res = "jperError"

C13_MemberAccessorAndScenario == C13_MemberAccessor /\ C13_Scenario

(* A lax member accessor on an array holding an array of objects and an *)
(* object yields the member of the object only.                         *)
C13_Witness ==
    /\ KeyCall
    /\ call.jb = JArr(<<JArr(<<ObjA(JNum(1))>>), ObjA(JNum(2))>>)
    /\ call.unwrap
    /\ call.found = EmptyList
    /\ ret.found.items = <<JNum(2)>>

IndexCall ==
    pc = "done" /\ call.fn = "executeItemOptUnwrapTarget" /\ call.jsp.type = "jpiIndexArray"

(* The array the subscripts of call c address: the input array, or in lax *)
(* mode the input wrapped into an array of size 1.                        *)
IndexedElems(c) == IF JsonbType(c.jb) = "jbvArray" THEN c.jb.children ELSE <<c.jb>>
IndexApplies(c) == JsonbType(c.jb) = "jbvArray" \/ c.cxt.laxMode

Max(a, b) == IF a > b THEN a ELSE b

(* A subscript [from to to] is out of bounds for an array of size n. *)
OutOfBounds(from, to, n) == from < 0 \/ from > to \/ to >= n

(* What the subscripts subs, from subscript i on, emit from elems: the      *)
(* items up to the first subscript that is an error, and whether there was  *)
(* one.  The elements of a subscript are those at the indexes of the range  *)
(* clipped to the array, in ascending order.                                *)
RECURSIVE SubscriptsYield(_, _, _, _)
SubscriptsYield(subs, i, elems, ignore) ==
    IF i > Len(subs) THEN [items |-> <<>>, error |-> FALSE]
    ELSE LET from == subs[i].from.numeric
             to == IF subs[i].range THEN subs[i].to.numeric ELSE from
             n == Len(elems)
         IN IF ~ignore /\ OutOfBounds(from, to, n)
            THEN [items |-> <<>>, error |-> TRUE]
            ELSE LET lo == Max(from, 0)
                     hi == Min(to, n - 1)
                     own == [k \in 1..Max(hi - lo + 1, 0) |-> elems[lo + k]]
                     rest == SubscriptsYield(subs, i + 1, elems, ignore)
                 IN [items |-> own \o rest.items, error |-> rest.error]

KeyValueCall ==
    /\ pc = "done" /\ call.fn = "executeJsonPath"
    /\ <<<<call.jb, call.jp>>, call.vars, call.tz>> \in KeyValueCases
    /\ call.result.given /\ ~IsRaised(ret) /\ ~jperIsError(ret.res)

(* The shape of the path of call c. *)
KvShapeOf(c) == CHOOSE k \in KvShapes : c.jp.expr = KvBody(k, KeyValue(NoItem))

(* The objects the last .keyvalue() of call c is applied to, in order: the *)
(* items of the path without it, arrays unwrapped in lax mode.             *)
RECURSIVE KvUnwrapped(_, _)
KvUnwrapped(items, lax) ==
    IF items = <<>> THEN <<>>
    ELSE (IF lax /\ JsonbType(Head(items)) = "jbvArray" THEN Head(items).children
          ELSE <<Head(items)>>) \o KvUnwrapped(Tail(items), lax)
KvSources(c) ==
    KvUnwrapped(executeJsonPath(JsonPath(c.jp.lax, KvBody(KvShapeOf(c), NoItem)),
                                c.vars, c.jb, c.throwErrors, EmptyList, c.tz).found.items,
                c.jp.lax)

(* For each emitted pair, the index of the source object it comes from. *)
RECURSIVE KvOrigins(_, _)
KvOrigins(srcs, k) ==
    IF k > Len(srcs) THEN <<>>
    ELSE [i \in 1..Len(srcs[k].children) |-> k] \o KvOrigins(srcs, k + 1)

(* Sources k and l of call c are one object: the same container of the     *)
(* document or of the variables; an object generated by .keyvalue(), or a  *)
(* value inside one, is an object of its own each time.                    *)
KvSameObject(c, srcs, k, l) ==
    IF KvShapeOf(c) \in {5, 6} THEN k = l ELSE srcs[k].addr = srcs[l].addr

KvId(pair) == pair.children[findJsonbValueFromContainer(pair, KeyValueKeys.idstr)].value.numeric

DatetimeCall ==
    /\ pc = "done" /\ call.fn = "compareItems"
    /\ call.jb1.type = "jbvDatetime" /\ call.jb2.type = "jbvDatetime"

(* The pairs of kinds whose comparison casts across the time zone line. *)
TzDependent(typid1, typid2) ==
    \/ {typid1, typid2} = {"TIMEOID", "TIMETZOID"}
    \/ {typid1, typid2} = {"DATEOID", "TIMESTAMPTZOID"}
    \/ {typid1, typid2} = {"TIMESTAMPOID", "TIMESTAMPTZOID"}

PathCall == pc = "done" /\ call.fn = "executeJsonPath"

(* The evaluation ends in an error, thrown or returned. *)
EndsInError(r) == IsRaised(r) \/ jperIsError(r.res)

(* The strict evaluation of the path body of call c, all else equal. *)
StrictRun(c) ==
    executeJsonPath(JsonPath(FALSE, c.jp.expr), c.vars, c.jb, c.throwErrors, c.result, c.tz)

(* A path body without a filter, a predicate, exists() or .**: nothing in *)
(* it turns an error into Unknown or ignores a structural error in strict *)
(* mode.                                                                   *)
RECURSIVE PlainItem(_)
PlainItem(jsp) ==
    CASE jsp.type = "none" -> TRUE
      [] jsp.type \in BoolItems \cup {"jpiFilter", "jpiAny"} -> FALSE
      [] jsp.type \in BinaryArithmItems ->
            PlainItem(jsp.left) /\ PlainItem(jsp.right) /\ PlainItem(jsp.next)
      [] jsp.type \in {"jpiPlus", "jpiMinus"} -> PlainItem(jsp.arg) /\ PlainItem(jsp.next)
      [] jsp.type = "jpiIndexArray" ->
            /\ \A i \in 1..Len(jsp.elems) : PlainItem(jsp.elems[i].from) /\ PlainItem(jsp.elems[i].to)
            /\ PlainItem(jsp.next)
      [] OTHER -> PlainItem(jsp.next)

(* The one-step bodies $.a, $.*, $[*], $[0], $[1] and $.size(). *)
WrapBodies == {Root(jpiAnyArray(NoItem)), Root(Index(0, NoItem))}
StructuralBodies ==
    WrapBodies \cup {Root(jpiKey(KeyA, NoItem)), Root(jpiAnyKey(NoItem)), Root(Index(1, NoItem)),
                     Root(jpiMethod("jpiSize", NoItem))}

(* What a lax one-step body yields where the strict one fails. *)
LaxSubResult(c, items) ==
    CASE c.jp.expr \in WrapBodies ->
            items = (IF JsonbType(c.jb) = "jbvArray" THEN <<>> ELSE <<c.jb>>)
      [] c.jp.expr = Root(jpiMethod("jpiSize", NoItem)) -> items = <<JNum(1)>>
      [] c.jp.expr = Root(Index(1, NoItem)) -> items = <<>>
      [] OTHER -> items = <<>> \/ JsonbType(c.jb) = "jbvArray"

TableDone == pc = "JsonTableDestroyOpaque" /\ call.fn = "JsonTable" /\ ~call.midscan

(* The items the path of a scan plan yields on item, none when it fails   *)
(* with errors suppressed.                                                 *)
PathItems(plan, item) ==
    LET r == executeJsonPath(plan.path, NoVars, item, FALSE, EmptyList, TRUE)
    IN IF EndsInError(r) THEN <<>> ELSE r.found.items

(* The plan produces no row for the parent row item. *)
RECURSIVE NestedEmpty(_, _)
NestedEmpty(plan, item) ==
    IF plan.type = "JsonTableSiblingJoin"
    THEN NestedEmpty(plan.lplan, item) /\ NestedEmpty(plan.rplan, item)
    ELSE PathItems(plan, item) = <<>>

(* The ordinal a fetched row shows in column colnum, 0 when it is NULL. *)
Ord(row, colnum) == IF row[colnum + 1].isnull THEN 0 ELSE row[colnum + 1].value.int4

(* The columns from colnum on are all NULL in the row. *)
NullFrom(row, colnum) == \A c \in (colnum + 1)..Len(row) : row[c].isnull

(* C18: when the scan has ended, every item of the row pattern of a scan   *)
(* with a nested plan (the root scan, and the nested scan above a scan of  *)
(* its own) has at least one fetched row; when its nested plan produces no *)
(* item, or fails with errors suppressed, it has exactly one, with NULL in *)
(* every column of the nested plan and of its descendants.                 *)
C18_OuterJoin ==
    (TableDone /\ call.tf.plan.child.type # "NULL") =>
        LET rows == tbl.rows
            root == call.tf.plan
            items == PathItems(root, call.doc)
        IN \A j \in 1..Len(items) :
             LET g == {k \in 1..Len(rows) : Ord(rows[k], root.colMin) = j}
             IN /\ g # {}
                /\ NestedEmpty(root.child, items[j]) =>
                      /\ Cardinality(g) = 1
                      /\ \A k \in g : NullFrom(rows[k], root.colMax + 1)
                /\ (root.child.type = "JsonTablePathScan" /\ root.child.child.type # "NULL") =>
                      LET scan == root.child
                          sub == PathItems(scan, items[j])
                      IN \A i \in 1..Len(sub) :
                           LET h == {k \in g : Ord(rows[k], scan.colMin) = i}
                           IN /\ h # {}
                              /\ NestedEmpty(scan.child, sub[i]) =>
                                    /\ Cardinality(h) = 1
                                    /\ \A k \in h : NullFrom(rows[k], scan.colMax + 1)

(* A parent row whose nested path failed after its first item, with errors *)
(* suppressed, has been fetched as one row with NULL nested columns, next  *)
(* to a parent row with two nested rows.                                   *)
C18_Witness ==
    /\ TableDone
    /\ call.tf.plan.child.type = "JsonTablePathScan"
    /\ ~call.tf.plan.child.path.lax
    /\ call.doc = JArr(<<JObj(<<JPair(KeyL, JArr(<<JNum(1)>>)), JPair(KeyR, JArr(<<>>))>>),
                         JObj(<<JPair(KeyL, JArr(<<JNum(1), JNum(2)>>)), JPair(KeyR, JArr(<<JNum(1)>>))>>)>>)
    /\ Len(tbl.rows) = 3
    /\ NullFrom(tbl.rows[1], 2)

(* The rows of the group from row k on show values in column colnum, in   *)
(* the order of vals, and NULL in the columns of the group other.         *)
SiblingRows(rows, first, vals, scan, other) ==
    \A i \in 1..Len(vals) :
        LET row == rows[first + i - 1]
        IN /\ ~row[scan.colMax + 1].isnull
           /\ row[scan.colMax + 1].value = vals[i]
           /\ \A c \in other.colMin..other.colMax : row[c + 1].isnull

(* C19: when the scan has ended, the rows of one parent row under a        *)
(* sibling join of two scans without nested plans are the rows of the left *)
(* sibling, in order, followed by the rows of the right sibling, in order: *)
(* left count + right count rows                                           *)
(* of the join (one row of NULLs when both are empty), and no left row     *)
(* after a right row.                                                      *)
C19_SiblingUnion ==
    (/\ TableDone
     /\ call.tf.plan.child.type = "JsonTableSiblingJoin"
     /\ call.tf.plan.child.lplan.child.type = "NULL"
     /\ call.tf.plan.child.rplan.child.type = "NULL") =>
        LET rows == tbl.rows
            root == call.tf.plan
            join == root.child
            items == PathItems(root, call.doc)
        IN \A j \in 1..Len(items) :
             LET g == {k \in 1..Len(rows) : Ord(rows[k], root.colMin) = j}
                 first == CHOOSE k \in g : \A m \in g : k <= m
                 l == PathItems(join.lplan, items[j])
                 r == PathItems(join.rplan, items[j])
             IN /\ g # {}
                /\ g = first..(first + Cardinality(g) - 1)
                /\ Cardinality({k \in g : ~NullFrom(rows[k], root.colMax + 1)}) = Len(l) + Len(r)
                /\ (Len(l) + Len(r) > 0) => Cardinality(g) = Len(l) + Len(r)
                /\ SiblingRows(rows, first, l, join.lplan, join.rplan)
                /\ SiblingRows(rows, first + Len(l), r, join.rplan, join.lplan)

(* A parent row with two left rows and one right row has been fetched as   *)
(* three rows.                                                             *)
C19_Witness ==
    /\ TableDone
    /\ call.tf.plan.child.type = "JsonTableSiblingJoin"
    /\ call.tf.plan.child.lplan.child.type = "NULL"
    /\ call.doc = JArr(<<JObj(<<JPair(KeyL, JArr(<<JNum(1), JNum(2)>>)), JPair(KeyR, JArr(<<JNum(1)>>))>>)>>)
    /\ Len(tbl.rows) = 3
    /\ ~tbl.rows[2][4].isnull /\ tbl.rows[2][6].isnull
    /\ tbl.rows[3][4].isnull /\ ~tbl.rows[3][6].isnull

(* The scans of a plan, each with the scan above it (NoPlan for the root). *)
RECURSIVE ScanLevels(_, _)
ScanLevels(plan, parent) ==
    IF plan.type = "NULL" THEN {}
    ELSE IF plan.type = "JsonTableSiblingJoin"
    THEN ScanLevels(plan.lplan, parent) \cup ScanLevels(plan.rplan, parent)
    ELSE {[scan |-> plan, parent |-> parent]} \cup ScanLevels(plan.child, plan)

(* The scan above scan: the parent of level lv. *)
LevelOf(levels, scan) == CHOOSE lv \in levels : lv.scan = scan

(* Rows k - 1 and k belong to the same row of every scan above level lv. *)
RECURSIVE SameParentRow(_, _, _, _)
SameParentRow(levels, rows, k, lv) ==
    \/ lv.parent.type = "NULL"
    \/ /\ Ord(rows[k - 1], lv.parent.colMin) = Ord(rows[k], lv.parent.colMin)
       /\ SameParentRow(levels, rows, k, LevelOf(levels, lv.parent))

(* C20: in every fetched row, a scan whose row pattern has an active row   *)
(* shows in its ORDINAL column the position of that row in the scan's own  *)
(* result sequence for the active parent row: 1 at the first row taken     *)
(* for a parent row, the same while only rows of its nested plan advance,  *)
(* one more for each further item.                                         *)
C20_Ordinal ==
    (call.fn = "JsonTable" /\ ~call.midscan /\ ret.raised = NoError) =>
        LET rows == tbl.rows
            levels == ScanLevels(call.tf.plan, NoPlan)
        IN \A k \in 1..Len(rows), lv \in levels :
             LET scan == lv.scan
                 ord == Ord(rows[k], scan.colMin)
                 active == ~rows[k][scan.colMax + 1].isnull
                 context == IF lv.parent.type = "NULL" THEN call.doc
                            ELSE rows[k][lv.parent.colMax + 1].value
                 prev == IF k > 1 /\ SameParentRow(levels, rows, k, lv)
                         THEN Ord(rows[k - 1], scan.colMin) ELSE 0
             IN /\ active <=> ord >= 1
                /\ active =>
                      /\ ord <= Len(PathItems(scan, context))
                      /\ rows[k][scan.colMax + 1].value = PathItems(scan, context)[ord]
                      /\ IF prev = 0 THEN ord = 1
                         ELSE \/ ord = prev + 1
                              \/ ord = prev /\ scan.child.type # "NULL"

(* The second row of a second parent row has been fetched: the ordinal of  *)
(* the nested scan has restarted at 1 and reached 2, the parent's is 2.    *)
C20_Witness ==
    /\ pc = "JsonTableFetchRow" /\ call.fn = "JsonTable"
    /\ call.tf.plan.child.type = "JsonTablePathScan"
    /\ Len(tbl.rows) = 4
    /\ Ord(tbl.rows[2], 0) = 1 /\ Ord(tbl.rows[2], 2) = 2
    /\ Ord(tbl.rows[3], 0) = 2 /\ Ord(tbl.rows[3], 2) = 1
    /\ Ord(tbl.rows[4], 0) = 2 /\ Ord(tbl.rows[4], 2) = 2

(* The rows a plan yields for one row of the scan above it (for the        *)
(* document, if it is the root): for a scan, per item of its path in       *)
(* order, the rows of its nested plan for that item, or one row when it    *)
(* has none, with the item and its position in the columns of the scan;    *)
(* for a sibling join, the rows of the left plan, then those of the right. *)
(* The columns of other plans are NULL.                                    *)
RECURSIVE PlanRows(_, _, _)
RECURSIVE ScanRowsFrom(_, _, _, _)
PlanRows(plan, item, colvalexprs) ==
    IF plan.type = "NULL" THEN <<>>
    ELSE IF plan.type = "JsonTableSiblingJoin"
    THEN PlanRows(plan.lplan, item, colvalexprs) \o PlanRows(plan.rplan, item, colvalexprs)
    ELSE ScanRowsFrom(plan, PathItems(plan, item), 1, colvalexprs)

ScanRowsFrom(scan, items, i, colvalexprs) ==
    IF i > Len(items) THEN <<>>
    ELSE LET own(row) == [c \in 1..Len(colvalexprs) |->
                            IF c - 1 < scan.colMin \/ c - 1 > scan.colMax THEN row[c]
                            ELSE IF colvalexprs[c] = "NULL"
                            THEN Returned([type |-> "int4", int4 |-> i])
                            ELSE Returned(items[i])]
             sub == PlanRows(scan.child, items[i], colvalexprs)
         IN (IF sub = <<>> THEN <<own([c \in 1..Len(colvalexprs) |->
                                              [ReturnedNull EXCEPT !.value = [type |-> "NULL"]]])>>
             ELSE [k \in 1..Len(sub) |-> own(sub[k])])
            \o ScanRowsFrom(scan, items, i + 1, colvalexprs)

(* Two rows show the same: NULL in the same columns, equal values in the   *)
(* others.                                                                 *)
SameRow(a, b) ==
    \A c \in 1..Len(a) : /\ a[c].isnull = b[c].isnull
                         /\ ~a[c].isnull => a[c].value = b[c].value

(* C21: the rows fetched so far are the first rows of the nested-loop      *)
(* order, and all of them once fetch-row has returned false: per item of   *)
(* the parent's result sequence, in order, the rows of the nested plan     *)
(* evaluated on that item, in the order of its result sequence and next to *)
(* one another, each with the parent item in the parent's columns.         *)
C21_NestedLoopOrder ==
    (call.fn = "JsonTable" /\ ~call.midscan /\ ret.raised = NoError) =>
        LET rows == tbl.rows
            expected == IF pc = "JsonTableInitOpaque" THEN <<>>
                        ELSE PlanRows(call.tf.plan, call.doc, tbl.colvalexprs)
        IN /\ Len(rows) <= Len(expected)
           /\ \A k \in 1..Len(rows) : SameRow(rows[k], expected[k])
           /\ pc = "JsonTableDestroyOpaque" => Len(rows) = Len(expected)

(* Two parent items with two nested rows each, the second one with two     *)
(* rows below its first nested row and none below its second, have been    *)
(* fetched in five rows.                                                   *)
C21_Witness ==
    /\ TableDone
    /\ call.tf.plan.child.type = "JsonTablePathScan"
    /\ call.tf.plan.child.child.type = "JsonTablePathScan"
    /\ Len(tbl.rows) = 5
    /\ Ord(tbl.rows[2], 2) = 2 /\ Ord(tbl.rows[3], 0) = 2
    /\ Ord(tbl.rows[3], 4) = 1 /\ Ord(tbl.rows[4], 4) = 2 /\ Ord(tbl.rows[5], 4) = 0

(***************************************************************************)
(* innermostArraySize and last.                                            *)
(***************************************************************************)
(* C22: an index accessor that returns (no error thrown) leaves            *)
(* innermostArraySize as it was on entry, whatever its status, with or     *)
(* without a result list; hence $[e, last] yields, after the element the   *)
(* subscript e selects, the last element of the array $, also when e runs  *)
(* an index accessor of its own.                                           *)
C22_SizeRestored ==
    /\ (IndexCall /\ ~IsRaised(ret)) =>
            ret.cxt.innermostArraySize = call.cxt.innermostArraySize
    /\ (/\ PathCall
        /\ <<<<call.jb, call.jp>>, call.vars, call.tz>> \in LastCases
        /\ call.result.given) =>
            /\ ~EndsInError(ret)
            /\ ret.found.items = <<call.jb.children[1], call.jb.children[Len(call.jb.children)]>>

(***************************************************************************)
(* AND, OR and their right operand.                                        *)
(***************************************************************************)
AndOrCall == BoolItemCall /\ call.jsp.type \in {"jpiAnd", "jpiOr"}

(* The operand p of the predicate of call c throws when it is evaluated. *)
Throws(c, p) == IsRaised(executeBoolItem(c.cxt, p, c.jb, FALSE))

(* The verdict of the left operand that decides the predicate of call c. *)
Deciding(c) == IF c.jsp.type = "jpiAnd" THEN "jpbFalse" ELSE "jpbTrue"

(* C23 as stated: in strict mode the right operand of AND and OR is        *)
(* evaluated whatever the verdict of the left one, so an error it throws   *)
(* is thrown by the predicate.                                             *)
C23_StrictEvaluatesBoth ==
    (/\ AndOrCall
     /\ ~call.cxt.laxMode
     /\ ~Throws(call, call.jsp.left)
     /\ Throws(call, call.jsp.right)) => IsRaised(ret)

(* C23 amended: in both modes the right operand of AND is evaluated unless *)
(* the left one is False, that of OR unless the left one is True; an       *)
(* Unknown left operand does not stop the evaluation.                      *)
C23_ShortCircuit ==
    (/\ AndOrCall
     /\ ~Throws(call, call.jsp.left)
     /\ Throws(call, call.jsp.right)) =>
        (IsRaised(ret) <=> Verdict(call, call.jsp.left) # Deciding(call))

(* A strict AND with a False left operand has returned False without       *)
(* evaluating its right operand, and one with an Unknown left operand has  *)
(* thrown the error of its right operand.                                  *)
C23_Witness ==
    /\ AndOrCall
    /\ ~call.cxt.laxMode
    /\ call.jsp.type = "jpiAnd"
    /\ Throws(call, call.jsp.right)
    /\ \/ Verdict(call, call.jsp.left) = "jpbFalse" /\ ~IsRaised(ret) /\ ret.st = "jpbFalse"
       \/ Verdict(call, call.jsp.left) = "jpbUnknown" /\ IsRaised(ret)

(***************************************************************************)
(* Unary plus and minus.                                                   *)
(***************************************************************************)
UnaryCall == PathCall /\ <<<<call.jb, call.jp>>, call.vars, call.tz>> \in UnaryCases

(* The operand sequence of +$ and -$ on the document of call c: the        *)
(* document, or its elements if it is an array and the mode is lax.        *)
UnarySeq(c) ==
    IF c.jp.lax /\ JsonbType(c.jb) = "jbvArray" THEN c.jb.children ELSE <<c.jb>>

(* What the steps after the operand make of its numeric items, in order,   *)
(* up to the first non-numeric one.                                        *)
RECURSIVE UnaryImages(_, _, _)
UnaryImages(seq, minus, abs) ==
    IF seq = <<>> \/ JsonbType(Head(seq)) # "jbvNumeric" THEN <<>>
    ELSE LET n == IF minus THEN 0 - Head(seq).numeric ELSE Head(seq).numeric
         IN <<JNum(IF abs /\ n < 0 THEN 0 - n ELSE n)>> \o UnaryImages(Tail(seq), minus, abs)

(* The evaluation ends in the error code, thrown or returned as the flag   *)
(* throwErrors of call c says.                                             *)
EndsIn(c, r, code) ==
    IF c.throwErrors THEN r.raised = code ELSE ~IsRaised(r) /\ r.res = "jperError"

(* C24 as stated: a non-numeric element of the operand sequence is the     *)
(* NUMBER_NOT_FOUND error, collecting or existence-only.                   *)
C24_NonNumericIsError ==
    (UnaryCall /\ \E i \in 1..Len(UnarySeq(call)) : JsonbType(UnarySeq(call)[i]) # "jbvNumeric") =>
        EndsIn(call, ret, "ERRCODE_SQL_JSON_NUMBER_NOT_FOUND")

(* C24 amended: when the items are collected (a result list is given, or   *)
(* the mode is strict, where executeJsonPath() collects them itself), all  *)
(* items numeric: they are passed on in order, unchanged for + and negated *)
(* for -; a non-numeric item is the NUMBER_NOT_FOUND error.  In a lax      *)
(* evaluation without a result list the evaluation stops at the first      *)
(* numeric item with Ok; non-numeric items in front of it are skipped when *)
(* the operator is the last step (NotFound if there is no numeric item),   *)
(* and are the error when a step follows.                                  *)
C24_UnaryItems ==
    UnaryCall =>
        LET seq == UnarySeq(call)
            images == UnaryImages(seq, call.jp.expr.type = "jpiMinus", jspHasNext(call.jp.expr))
            numeric == {i \in 1..Len(seq) : JsonbType(seq[i]) = "jbvNumeric"}
        IN IF call.result.given \/ ~call.jp.lax
           THEN IF Cardinality(numeric) = Len(seq)
                THEN /\ ~EndsInError(ret)
                     /\ call.result.given => ret.found.items = images
                     /\ ret.res = IF seq = <<>> THEN "jperNotFound" ELSE "jperOk"
                ELSE EndsIn(call, ret, "ERRCODE_SQL_JSON_NUMBER_NOT_FOUND")
           ELSE IF jspHasNext(call.jp.expr)
                THEN IF seq = <<>> THEN ~EndsInError(ret) /\ ret.res = "jperNotFound"
                     ELSE IF 1 \in numeric THEN ~EndsInError(ret) /\ ret.res = "jperOk"
                     ELSE EndsIn(call, ret, "ERRCODE_SQL_JSON_NUMBER_NOT_FOUND")
                ELSE /\ ~EndsInError(ret)
                     /\ ret.res = IF numeric = {} THEN "jperNotFound" ELSE "jperOk"

(* -$ has passed on -1 and 2 for [1, -2]; the existence-only +$ has        *)
(* skipped the string of ["x", 1].                                         *)
C24_Witness ==
    /\ UnaryCall
    /\ call.jp.lax
    /\ ~jspHasNext(call.jp.expr)
    /\ \/ /\ call.jp.expr.type = "jpiMinus"
          /\ call.jb = JArr(<<JNum(1), JNum(-2)>>)
          /\ call.result.given
          /\ ret.found.items = <<JNum(-1), JNum(2)>>
       \/ /\ call.jp.expr.type = "jpiPlus"
          /\ call.jb = JArr(<<JStr(StrX), JNum(1)>>)
          /\ ~call.result.given
          /\ ret.res = "jperOk"

(***************************************************************************)
(* Recursive descent with depth bounds.                                    *)
(***************************************************************************)
DescentCall == PathCall /\ <<<<call.jb, call.jp>>, call.vars, call.tz>> \in DescentCases

(* The values of the tree under v in document pre-order, v itself first,   *)
(* each with its depth; v is at depth d.                                   *)
RECURSIVE PreOrder(_, _)
RECURSIVE PreOrderFrom(_, _, _)
PreOrder(v, d) ==
    <<[value |-> v, depth |-> d]>>
        \o (IF v.type = "jbvBinary" THEN PreOrderFrom(ContainerValues(v), 1, d + 1) ELSE <<>>)
PreOrderFrom(vals, i, d) ==
    IF i > Len(vals) THEN <<>> ELSE PreOrder(vals[i], d) \o PreOrderFrom(vals, i + 1, d)

(* v itself if first = 0 and the values nested in v at a depth from        *)
(* max(first, 1) to last, in pre-order.                                    *)
DepthBand(v, first, last) ==
    LET InBand(n) == first <= n.depth /\ n.depth <= last
        nodes == SelectSeq(PreOrder(v, 0), InBand)
    IN [i \in 1..Len(nodes) |-> nodes[i].value]

(* What the member accessor .a makes of value v when structural errors are *)
(* ignored: the member of an object, in lax mode also the members of the   *)
(* objects among the elements of an array.                                 *)
MemberImage(v, lax) ==
    IF lax /\ JsonbType(v) = "jbvArray" THEN MembersOfElements(v.children, 1, KeyA)
    ELSE MemberOf(v, KeyA)

(* The results of the step after .** for the values of the band, in order. *)
RECURSIVE DescentImages(_, _, _, _)
DescentImages(vals, i, hasNext, lax) ==
    IF i > Len(vals) THEN <<>>
    ELSE (IF hasNext THEN MemberImage(vals[i], lax) ELSE <<vals[i]>>)
            \o DescentImages(vals, i + 1, hasNext, lax)

(* C25: $.**{first to last} passes to the next step the document itself if *)
(* first = 0 and every value nested at a depth from max(first, 1) to last, *)
(* in document pre-order and nothing deeper; the next step runs with       *)
(* structural errors ignored, in strict mode too, and the flag has its     *)
(* previous value when the descent has returned.  Without a result list    *)
(* the status is Ok exactly when the step yields something for a value of  *)
(* the band.                                                               *)
C25_DescentBand ==
    DescentCall =>
        LET any == call.jp.expr.next
            images == DescentImages(DepthBand(call.jb, any.first, any.last), 1,
                                    jspHasNext(any), call.jp.lax)
        IN /\ ~EndsInError(ret)
           /\ ret.cxt.ignoreStructuralErrors = call.jp.lax
           /\ IF call.result.given THEN ret.found.items = images
              ELSE ret.res = IF images = <<>> THEN "jperNotFound" ELSE "jperOk"

(* strict $.**{1 to 2}.a on {"a": [{"a": 1}, 2], "b": {"a": {"a": 3}}}    *)
(* has yielded 1, {"a": 3} and 3: the member a of the first array element, *)
(* of member b and of the member a of b, without a structural error for    *)
(* the array and the number.                                               *)
C25_Witness ==
    /\ DescentCall
    /\ ~call.jp.lax
    /\ call.result.given
    /\ call.jp.expr.next = jpiAny(1, 2, jpiKey(KeyA, NoItem))
    /\ ret.found.items = <<JNum(1), JObj(<<JPair(KeyA, JNum(3))>>), JNum(3)>>
    /\ ~ret.cxt.ignoreStructuralErrors

(***************************************************************************)
(* No Error status when errors are thrown.                                 *)
(***************************************************************************)
(* The evaluation of call c with throwErrors = false, all else equal. *)
QuietRun(c) == executeJsonPath(c.jp, c.vars, c.jb, FALSE, c.result, c.tz)

(* C26: with throwErrors = true executeJsonPath() never returns the Error  *)
(* status: an evaluation that returns has the status Ok or NotFound, with  *)
(* cxt.throwErrors true again after every predicate operand; and where the *)
(* evaluation with throwErrors = false returns Error, the one with         *)
(* throwErrors = true raises.                                              *)
C26_NoErrorStatus ==
    (PathCall /\ call.throwErrors) =>
        /\ ~IsRaised(ret) => (ret.res \in {"jperOk", "jperNotFound"} /\ ret.cxt.throwErrors)
        /\ LET quiet == QuietRun(call)
           IN (~IsRaised(quiet) /\ jperIsError(quiet.res)) => IsRaised(ret)

(* strict $[*] == 1 on the number 1 with throwErrors = true: the           *)
(* structural error of the operand is Unknown, the predicate yields null   *)
(* and nothing is raised.                                                  *)
C26_Witness ==
    /\ PathCall
    /\ call.throwErrors
    /\ call.jp = JsonPath(FALSE, Cmp("jpiEqual", Root(jpiAnyArray(NoItem)), Num(1)))
    /\ call.jb = JNum(1)
    /\ call.result.given
    /\ ~IsRaised(ret)
    /\ ret.res = "jperOk"
    /\ ret.found.items = <<JNull>>

(***************************************************************************)
(* Existence-only and collecting evaluation in lax mode.                   *)
(***************************************************************************)
(* The evaluation of call c with a result list, all else equal. *)
QueryRun(c) == executeJsonPath(c.jp, c.vars, c.jb, c.throwErrors, EmptyList, c.tz)

(* C27: in lax mode, when the collecting evaluation of a path on a         *)
(* document completes without error, the existence-only evaluation of the  *)
(* same path on the same document returns Ok if the collected sequence is  *)
(* not empty and NotFound if it is empty.                                  *)
C27_ExistsAgreesWithQuery ==
    (PathCall /\ call.jp.lax /\ ~call.result.given) =>
        LET query == QueryRun(call)
        IN ~EndsInError(query) =>
              /\ ~EndsInError(ret)
              /\ ret.res = IF query.found.items = <<>> THEN "jperNotFound" ELSE "jperOk"

(* The existence-only lax $[*] ? (@ > 1) on [1, 2] is Ok, and it is        *)
(* NotFound on [1], where the query yields nothing.                        *)
C27_Witness ==
    /\ PathCall
    /\ call.jp = JsonPath(TRUE, Root(jpiAnyArray(jpiFilter(Cmp("jpiGreater", Cur(NoItem), Num(1)), NoItem))))
    /\ ~call.result.given
    /\ \/ /\ call.jb = JArr(<<JNum(1), JNum(2)>>)
          /\ QueryRun(call).found.items = <<JNum(2)>>
          /\ ret.res = "jperOk"
       \/ /\ call.jb = JArr(<<JNum(1)>>)
          /\ QueryRun(call).found.items = <<>>
          /\ ret.res = "jperNotFound"

(***************************************************************************)
(* JSON_TABLE: the current rows of nested scans.                           *)
(***************************************************************************)
(* A scan of planstate with a current row has it from the current row of   *)
(* its parent scan: parent, the row source of the parent scan, is not      *)
(* NULL, and the row is an item of the scan's path on it.                  *)
RECURSIVE RowsFromParent(_, _)
RowsFromParent(planstate, parent) ==
    IF planstate.plan.type = "NULL" THEN TRUE
    ELSE IF planstate.plan.type = "JsonTableSiblingJoin"
    THEN RowsFromParent(planstate.left, parent) /\ RowsFromParent(planstate.right, parent)
    ELSE /\ ~planstate.current.isnull =>
               /\ ~parent.isnull
               /\ \E i \in 1..Len(PathItems(planstate.plan, parent.value)) :
                      PathItems(planstate.plan, parent.value)[i] = planstate.current.value
         /\ RowsFromParent(planstate.nested, planstate.current)

(* A JSON_TABLE call has returned without an error. *)
TableCall == call.fn = "JsonTable" /\ ret.raised = NoError

(* C28 as stated: after any sequence of set-document and fetch-row calls,  *)
(* also with a set-document before the rows of the previous document are   *)
(* exhausted, a nested scan has a current row only if its parent scan has  *)
(* one, and the row get-value reads is an item of the nested path on the   *)
(* current parent row.                                                     *)
C28_NestedUnderParent ==
    TableCall => RowsFromParent(tbl.rootplanstate, JsonTablePlanRowSource(call.doc, FALSE))

(* C28 amended: the same when every set-document comes before the first    *)
(* fetch-row or after fetch-row has returned false for the previous        *)
(* document.                                                               *)
C28_NestedUnderParentInOrder ==
    (TableCall /\ ~call.midscan) =>
        RowsFromParent(tbl.rootplanstate, JsonTablePlanRowSource(call.doc, FALSE))

(* A second document has been set after the first one was exhausted, and   *)
(* a row with a current row in a nested scan has been fetched from it.     *)
C28_Witness ==
    /\ pc = "JsonTableFetchRow"
    /\ TableCall
    /\ ~call.midscan
    /\ call.doc = JArr(<<JObj(<<JPair(KeyL, JArr(<<JNum(1)>>)), JPair(KeyR, JArr(<<JNum(1)>>))>>)>>)
    /\ tbl.rootplanstate.nested.plan.type = "JsonTablePathScan"
    /\ ~tbl.rootplanstate.nested.current.isnull
    /\ tbl.rootplanstate.ordinal = 1

(***************************************************************************)
(* JSON_TABLE: the siblings of a join.                                     *)
(***************************************************************************)
(* The columns of the scans of a plan. *)
RECURSIVE PlanCols(_)
PlanCols(plan) ==
    IF plan.type = "NULL" THEN {}
    ELSE IF plan.type = "JsonTableSiblingJoin" THEN PlanCols(plan.lplan) \cup PlanCols(plan.rplan)
    ELSE (plan.colMin..plan.colMax) \cup PlanCols(plan.child)

(* No scan of the plan state has a current row. *)
RECURSIVE NoCurrentRow(_)
NoCurrentRow(planstate) ==
    IF planstate.plan.type = "NULL" THEN TRUE
    ELSE IF planstate.plan.type = "JsonTableSiblingJoin"
    THEN NoCurrentRow(planstate.left) /\ NoCurrentRow(planstate.right)
    ELSE planstate.current.isnull /\ NoCurrentRow(planstate.nested)

(* The columns cols all read NULL in the row. *)
NullIn(row, cols) == \A c \in cols : row[c + 1].isnull

(* A sibling join below the root scan; each document was exhausted before  *)
(* the next one was set.                                                   *)
SiblingCall ==
    /\ TableCall
    /\ ~call.midscan
    /\ call.tf.plan.child.type = "JsonTableSiblingJoin"

(* C29: under a sibling join at most one sibling has a current row after a *)
(* fetch-row, and the scans below the other one have none either: a row    *)
(* reads NULL in every column of the right sibling and its nested plans or *)
(* in every column of the left sibling and its nested plans; and once a    *)
(* row of the right sibling was fetched for a parent row, no later row of  *)
(* that parent row has a value in a column of the left sibling.            *)
C29_OneSiblingAtATime ==
    SiblingCall =>
        LET join == tbl.rootplanstate.nested
            lcols == PlanCols(join.plan.lplan)
            rcols == PlanCols(join.plan.rplan)
            rows == tbl.rows
        IN /\ NoCurrentRow(join.left) \/ NoCurrentRow(join.right)
           /\ \A k \in 1..Len(rows) : NullIn(rows[k], lcols) \/ NullIn(rows[k], rcols)
           /\ \A j, k \in 1..Len(rows) :
                 (j < k /\ Ord(rows[j], 0) = Ord(rows[k], 0) /\ ~NullIn(rows[j], rcols)) =>
                     NullIn(rows[k], lcols)

(* Both siblings have nested scans: the rows of [{"l": [1, 2], "r": [1]}]  *)
(* are two rows of the left sibling with its nested column set and the     *)
(* columns 6 to 9 NULL, then one row of the right sibling with its nested  *)
(* column set and the columns 2 to 5 NULL.                                 *)
C29_Witness ==
    /\ SiblingCall
    /\ pc = "JsonTableDestroyOpaque"
    /\ Len(tbl.colvalexprs) = 10
    /\ Len(tbl.rows) = 3
    /\ ~tbl.rows[1][6].isnull /\ NullIn(tbl.rows[1], 6..9)
    /\ ~tbl.rows[2][6].isnull /\ NullIn(tbl.rows[2], 6..9)
    /\ ~tbl.rows[3][10].isnull /\ NullIn(tbl.rows[3], 2..5)

(***************************************************************************)
(* JSON_TABLE: the end of the rows.                                        *)
(***************************************************************************)
(* C30: after a set-document the repeated fetch-row calls come to an end:  *)
(* fetch-row returns false (or raises the error of a path with ERROR ON    *)
(* ERROR, which ends the scan).  Once fetch-row has returned false no plan *)
(* has a current row, and a later fetch-row without a new set-document     *)
(* returns false again.                                                    *)
C30_FetchTerminates ==
    /\ (pc = "JsonTableSetDocument") ~> (pc \in {"JsonTableDestroyOpaque", "done"})
    /\ [](pc = "JsonTableDestroyOpaque" => (~ret.more /\ NoCurrentRow(tbl.rootplanstate)))
    /\ [][pc = "JsonTableDestroyOpaque" => pc' # "JsonTableFetchRow"]_vars

(* The five rows of a plan with a sibling join and nested scans have been  *)
(* fetched and fetch-row has returned false.                               *)
C30_Witness ==
    /\ pc = "JsonTableDestroyOpaque"
    /\ Len(tbl.colvalexprs) = 10
    /\ Len(tbl.rows) = 5
    /\ ~ret.more
    /\ NoCurrentRow(tbl.rootplanstate)

====
